---- MODULE Spec2Model ----
(***************************************************************************)
(* Sprout: typed request pipeline and hierarchical middleware dispatch.    *)
(* Router nodes form a tree (Mount); Use and route registration draw order *)
(* numbers from one shared counter; dispatch builds a chain from the       *)
(* ancestor middleware partitioned around the route and runs it link by    *)
(* link.  Strings are sequences of one-character strings.                  *)
(***************************************************************************)
EXTENDS Integers, Sequences, FiniteSets, TLC

\* ------------------------------------------------------------------ bounds
MaxSetup == 6        \* size of a setup: router nodes plus registration events
MaxErrSetup == 4     \* the same, in the error-pipeline specification
MaxFbSetup == 5      \* the same, in the fallback specification
MaxRmwSetup == 4     \* the same, in the route-scoped middleware specification
MaxGlobalSetup == 4  \* the same, in the root base path specification
MaxRoutes == 2       \* registered routes
MaxRouteMw == 2      \* route-scoped middleware per route
MaxGoroutines == 2   \* goroutines registering concurrently
MaxCalls == 2        \* registration calls the goroutines make together
MaxPipeSetup == 3     \* size of a setup in the pipeline specification
MaxFields == 2       \* fields of a request type
MaxBodySetup == 2    \* registrations in the response body specification
MaxPathLen == 2      \* characters of a base path or prefix
MaxMounts == 1       \* Mount calls in the base path specification
MaxConfigNodes == 2  \* nodes in the configuration specification
MaxBools == 3        \* bools that StrictErrorTypes pointers point to
MaxIsoSetup == 4     \* nodes and registrations before concurrent requests
MaxUnionFields == 2  \* union fields of a request DTO
MaxTagFields == 1    \* struct fields that carry a sprout tag
MaxParts == 2        \* comma-separated parts of a sprout tag
MaxStructFields == 2 \* fields of a projected struct
MaxEmbedFields == 1  \* fields of an embedded struct
MaxEmbedDepth == 2   \* embedded structs inside one another
MaxUnwrapStruct == 3 \* fields of a response struct with unwrap fields
MaxReqPathLen == 3   \* characters of a request path asked of matchesPath
MaxRuleFields == 2   \* fields of a struct given to the union validation rule
MaxLiveSetup == 3    \* order numbers drawn while requests are served
MaxPassSetup == 4    \* SpecPass: nodes and registrations together

VARIABLES
    nodes,           \* routerRegistry.routers: the Sprout nodes, root first
    order,           \* orderSeq.value, shared by the whole tree
    middlewares,     \* middlewares[n]: node n's []middlewareLayer
    routes,          \* the routeEntry values registered with handle
    pc,              \* "idle" | "run" | "done": the request in flight
    chain,           \* the []Middleware built by dispatch
    idx,             \* position of the next link exec will call
    owner,           \* the node runChain reports chain errors to
    method,          \* req.Method
    reqRoute,        \* index of the matched route, 0 on the fallback path
    trace,           \* links executed so far, each with what it did
    writes,          \* response writes made by the pipeline and middleware
    ehCalls,         \* errors delivered to config.ErrorHandler
    handlerCalls,    \* invocations of the user handler
    reqPath,         \* req.URL.Path of an unmatched request
    goroutines,      \* goroutines that register concurrently, each at a step
    mwMu,            \* the nodes whose mwMu mutex is held
    history,         \* calls and returns of the concurrent registrations, in time
    codec            \* a request DTO with union fields on its way through the codec

vars == <<nodes, order, middlewares, routes, pc, chain, idx, owner, method,
          reqRoute, trace, writes, ehCalls, handlerCalls, reqPath, goroutines,
          mwMu, history, codec>>

concVars == <<goroutines, mwMu, history>>
regVars == <<nodes, order, middlewares, routes, concVars, codec>>
reqVars == <<pc, chain, idx, owner, method, reqRoute, trace, writes, ehCalls,
             handlerCalls, reqPath>>

\* ----------------------------------------------------------------- strings
HasPrefix(s, p) == Len(p) <= Len(s) /\ SubSeq(s, 1, Len(p)) = p

HasSuffix(s, p) == Len(p) <= Len(s) /\ SubSeq(s, Len(s) - Len(p) + 1, Len(s)) = p

TrimSuffix(s, p) == IF HasSuffix(s, p) THEN SubSeq(s, 1, Len(s) - Len(p)) ELSE s

RECURSIVE TrimLeft(_)
TrimLeft(s) == IF s # <<>> /\ Head(s) = " " THEN TrimLeft(Tail(s)) ELSE s

RECURSIVE TrimRight(_)
TrimRight(s) ==
    IF s # <<>> /\ s[Len(s)] = " " THEN TrimRight(SubSeq(s, 1, Len(s) - 1)) ELSE s

TrimSpace(s) == TrimRight(TrimLeft(s))

joinPath(basePath, routePath) ==
    LET b0 == TrimSpace(basePath) IN
    IF b0 = <<>> THEN routePath
    ELSE LET b1 == IF ~HasPrefix(b0, <<"/">>) THEN <<"/">> \o b0 ELSE b0
             b2 == TrimSuffix(b1, <<"/">>)
             r1 == IF ~HasPrefix(routePath, <<"/">>) THEN <<"/">> \o routePath
                   ELSE routePath
         IN b2 \o r1

RECURSIVE combineFrom(_, _)
combineFrom(result, paths) ==
    IF paths = <<>> THEN result
    ELSE LET segment == TrimSpace(Head(paths)) IN
         IF segment = <<>> \/ segment = <<"/">>
         THEN combineFrom(result, Tail(paths))
         ELSE combineFrom(joinPath(result, segment), Tail(paths))

combineBasePath(paths) ==
    LET result == combineFrom(<<>>, paths) IN
    IF result = <<>> \/ result = <<"/">> THEN <<>>
    ELSE TrimSuffix(result, <<"/">>)

\* Mutant: a base path matches every path it is a prefix of.
matchesPathPrefixOnly(s, path) ==
    LET base == nodes[s].BasePath IN
    IF base = <<>> \/ base = <<"/">> THEN TRUE
    ELSE HasPrefix(path, base)
matchesPath(s, path) ==
    LET base == nodes[s].BasePath IN
    IF base = <<>> \/ base = <<"/">> THEN TRUE
    ELSE IF ~HasPrefix(path, base) THEN FALSE
    ELSE IF Len(path) = Len(base) THEN TRUE
    ELSE path[Len(base) + 1] = "/"

\* ------------------------------------------------------------ input domains
NoHandler == 0                       \* Config.ErrorHandler == nil
RootHandlers == {NoHandler, 1}
RootStrict == {"nil", "true", "false"}
RootBases == {<<>>}
RootBasePaths == {<<>>, <<"/">>, <<"/", "a">>, <<"/", "a", "/">>}
Prefixes == {<<"/", "a">>, <<"/", "b">>}
MountConfigs ==
    {[isNil |-> TRUE, ErrorHandler |-> NoHandler, StrictErrorTypes |-> "nil", strictRef |-> 0,
      BasePath |-> <<>>],
     [isNil |-> FALSE, ErrorHandler |-> 2, StrictErrorTypes |-> "false", strictRef |-> 0,
      BasePath |-> <<>>]}
Methods == {"GET"}
Paths == {<<"/", "a">>, <<"/", "a", "/", "b">>, <<"/", "a", "b">>}

\* ------------------------------------------------------------ error values
\* An error value: shape "struct" is a user struct error (type, validity under
\* its validate tags, status from its http:"status=N" tag, 0 when untagged),
\* "plain" an errors.New value, "sprout" the pipeline's own *Error with Kind,
\* "sentinel" ErrNext, "nil" the nil error.
Err(shape, type, valid, status, kind) ==
    [shape |-> shape, type |-> type, valid |-> valid, status |-> status, kind |-> kind]

NilErr == Err("nil", "", TRUE, 0, "")
ErrNext == Err("sentinel", "ErrNext", TRUE, 0, "")
SproutError(kind) == Err("sprout", "Error", TRUE, 0, kind)

ErrorKindParse == "parse_error"
ErrorKindValidation == "validation_error"
ErrorKindResponseValidation == "response_validation_error"
ErrorKindErrorValidation == "error_validation_error"
ErrorKindUndeclaredError == "undeclared_error_type"
ErrorKindNotFound == "not_found"
ErrorKindMethodNotAllowed == "method_not_allowed"
ErrorKindSerialization == "serialization_error"

StatusOK == 200
StatusNoContent == 204
StatusResetContent == 205
StatusNotModified == 304
StatusBadRequest == 400
StatusNotFound == 404
StatusMethodNotAllowed == 405
StatusTeapot == 418
StatusInternalServerError == 500

TeapotError(valid) == Err("struct", "TeapotError", valid, StatusTeapot, "")
NotFoundError(valid) == Err("struct", "NotFoundError", valid, StatusNotFound, "")
PlainError == Err("plain", "errorString", TRUE, 0, "")

ErrTypes == {"TeapotError", "NotFoundError"}
UserErrs == {TeapotError(TRUE), TeapotError(FALSE), NotFoundError(TRUE), PlainError}
\* WithErrors takes any error value: errors.New values declare errorString, a
\* struct whose only field is unexported and untagged.
Allowlists == {{}, {"TeapotError"}, {"NotFoundError"}, {"errorString"}}

IsSproutErr(err) == err.shape = "sprout"

isStructLike(err) == err.shape \in {"struct", "sprout"}

extractStatusCode(err, defaultCode) ==
    IF err.shape = "struct" /\ err.status # 0 THEN err.status ELSE defaultCode

\* Mutant: the method is not looked at.
shouldWriteBodyAnyMethod(m, status) ==
    IF status >= 100 /\ status < 200 THEN FALSE
    ELSE IF status \in {StatusNoContent, StatusResetContent, StatusNotModified} THEN FALSE
    ELSE TRUE
shouldWriteBody(m, status) ==
    IF m = "HEAD" THEN FALSE
    ELSE IF status >= 100 /\ status < 200 THEN FALSE
    ELSE IF status \in {StatusNoContent, StatusResetContent, StatusNotModified} THEN FALSE
    ELSE TRUE

\* One response write: who wrote, the status, whether a body followed.
\* text is what http.Error sends for one of the pipeline's own errors: it
\* begins with the error's Kind.
WriteText(by, status, body, text) ==
    [by |-> by, status |-> status, body |-> body, text |-> text]

Write(by, status, body) == WriteText(by, status, body, "")

StrictOf(s) == nodes[s].StrictErrorTypes

\* Mutant: the error value is written without being validated.
writeTypedUnvalidated(s, m, err, defaultStatus, enforceValidation) ==
    IF err = NilErr \/ IsSproutErr(err) \/ ~isStructLike(err)
    THEN [handled |-> FALSE, fallbackErr |-> NilErr, w |-> <<>>]
    ELSE LET statusCode == extractStatusCode(err, defaultStatus) IN
         [handled |-> TRUE, fallbackErr |-> NilErr,
          w |-> <<Write("typed", statusCode, shouldWriteBody(m, statusCode))>>]

\* The JSON encoding of the error body is taken to succeed: the error values
\* of the model have bodies that encode, so the Serialization result of a
\* failed Encode does not arise.
writeTypedErrorResponse(s, m, err, defaultStatus, enforceValidation) ==
    IF err = NilErr THEN [handled |-> FALSE, fallbackErr |-> NilErr, w |-> <<>>]
    ELSE IF IsSproutErr(err) THEN [handled |-> FALSE, fallbackErr |-> NilErr, w |-> <<>>]
    ELSE IF ~isStructLike(err) THEN [handled |-> FALSE, fallbackErr |-> NilErr, w |-> <<>>]
    ELSE IF enforceValidation /\ ~err.valid
         THEN [handled |-> FALSE, fallbackErr |-> SproutError(ErrorKindErrorValidation),
               w |-> <<>>]
    ELSE LET statusCode == extractStatusCode(err, defaultStatus) IN
         [handled |-> TRUE, fallbackErr |-> NilErr,
          w |-> <<Write("typed", statusCode, shouldWriteBody(m, statusCode))>>]

\* Mutant: struct errors are validated on non-strict nodes too.
normalizeErrorStrict(s, err) ==
    IF IsSproutErr(err) THEN err
    ELSE IF isStructLike(err) /\ ~err.valid THEN SproutError(ErrorKindErrorValidation)
    ELSE err

normalizeError(s, err) ==
    IF IsSproutErr(err) THEN err
    ELSE IF isStructLike(err)
         THEN IF ~StrictOf(s) THEN err
              ELSE IF ~err.valid THEN SproutError(ErrorKindErrorValidation)
              ELSE err
    ELSE err

defaultStatusOf(err) ==
    IF IsSproutErr(err)
    THEN CASE err.kind \in {ErrorKindParse, ErrorKindValidation} -> StatusBadRequest
           [] err.kind = ErrorKindNotFound -> StatusNotFound
           [] err.kind = ErrorKindMethodNotAllowed -> StatusMethodNotAllowed
           [] OTHER -> StatusInternalServerError
    ELSE StatusInternalServerError

\* Mutant: the default response is written although the ErrorHandler was called.
handleErrorAlsoWrites(s, m, err) ==
    IF err = NilErr THEN [w |-> <<>>, eh |-> <<>>]
    ELSE LET normalizedErr == normalizeError(s, err) IN
         [w |-> <<WriteText("default", defaultStatusOf(normalizedErr), TRUE,
                            normalizedErr.kind)>>,
          eh |-> IF nodes[s].ErrorHandler # NoHandler
                 THEN <<[handler |-> nodes[s].ErrorHandler, err |-> normalizedErr]>>
                 ELSE <<>>]

\* handleError yields the writes it makes and the errors it hands to the
\* configured ErrorHandler.
RECURSIVE handleError(_, _, _)
handleError(s, m, err) ==
    IF err = NilErr THEN [w |-> <<>>, eh |-> <<>>]
    ELSE LET normalizedErr == normalizeError(s, err) IN
         IF nodes[s].ErrorHandler # NoHandler
         THEN [w |-> <<>>,
               eh |-> <<[handler |-> nodes[s].ErrorHandler, err |-> normalizedErr]>>]
         ELSE LET t == writeTypedErrorResponse(s, m, normalizedErr,
                                               StatusInternalServerError, TRUE) IN
              IF t.handled THEN [w |-> t.w, eh |-> <<>>]
              ELSE IF t.fallbackErr # NilErr
                   THEN LET r == handleError(s, m, t.fallbackErr) IN
                        [w |-> t.w \o r.w, eh |-> r.eh]
              ELSE [w |-> <<WriteText("default", defaultStatusOf(normalizedErr), TRUE,
                                       normalizedErr.kind)>>,
                    eh |-> <<>>]

\* Mutant: a chain error is never written as a typed response.
handleChainErrorUntyped(s, m, err) == handleError(s, m, err)

\* Mutant: a chain error on a strict node is rejected as undeclared.
handleChainErrorStrict(s, m, err) ==
    IF err = NilErr THEN [w |-> <<>>, eh |-> <<>>]
    ELSE IF StrictOf(s) THEN handleError(s, m, SproutError(ErrorKindUndeclaredError))
    ELSE LET t == writeTypedErrorResponse(s, m, err, StatusInternalServerError, TRUE) IN
         IF t.handled THEN [w |-> t.w, eh |-> <<>>]
         ELSE handleError(s, m, err)

\* handleChainError calls writeTypedErrorResponse without the enforceValidation
\* argument and reads its result as a bool: the call is taken as the validating
\* one, as in handleError, and the bool as the handled result.
handleChainError(s, m, err) ==
    IF err = NilErr THEN [w |-> <<>>, eh |-> <<>>]
    ELSE LET t == writeTypedErrorResponse(s, m, err, StatusInternalServerError, TRUE) IN
         IF t.handled THEN [w |-> t.w, eh |-> <<>>]
         ELSE handleError(s, m, err)

\* ------------------------------------------------------------ registration
\* StrictErrorTypes is a *bool: the node record keeps the bool it points to
\* and, as strictRef, which bool that is; nodes with the same strictRef share
\* one bool.
Node(parent, base, eh, strict, strictRef) ==
    [parent |-> parent, BasePath |-> base, ErrorHandler |-> eh, StrictErrorTypes |-> strict,
     strictRef |-> strictRef]

\* NewWithConfig: a nil StrictErrorTypes defaults to true; BasePath is kept as given.
NewWithConfig(eh, strict, base) ==
    Node(0, base, eh, IF strict = "nil" THEN TRUE ELSE strict = "true", 1)

\* A bool no node points to yet.
newBool ==
    LET refs == {nodes[n].strictRef : n \in 1..Len(nodes)} IN
    1 + CHOOSE r \in refs : \A q \in refs : q <= r

\* The value of the bool a pointer of the caller points to.
deref(ref) == nodes[CHOOSE n \in 1..Len(nodes) : nodes[n].strictRef = ref].StrictErrorTypes

\* A link of a chain (a Middleware value): a Use layer of a node, a route-scoped
\* middleware of a route, the typed handler of a route, or the fallback step.
Link(kind, node, ord, slot, arg) ==
    [kind |-> kind, node |-> node, order |-> ord, slot |-> slot, arg |-> arg]

\* A goroutine that is not inside a registration call.
Idle == [pc |-> "idle", op |-> "", node |-> 0, n |-> 0, local |-> <<>>]

InitRouter(handlers, stricts, bases) ==
    /\ \E eh \in handlers, strict \in stricts, base \in bases :
           nodes = <<NewWithConfig(eh, strict, base)>>
    /\ order = 0
    /\ middlewares = <<(<<>>)>>
    /\ routes = <<>>
    /\ pc = "idle"
    /\ chain = <<>>
    /\ idx = 0
    /\ owner = 0
    /\ method = "GET"
    /\ reqRoute = 0
    /\ trace = <<>>
    /\ writes = <<>>
    /\ ehCalls = <<>>
    /\ handlerCalls = 0
    /\ reqPath = <<>>
    /\ goroutines = [g \in 1..MaxGoroutines |-> Idle]
    /\ mwMu = {}
    /\ history = <<>>

\* No DTO is in the codec.
NoCodec == [pc |-> "none"]

InitWith(handlers, stricts, bases) ==
    /\ InitRouter(handlers, stricts, bases)
    /\ codec = NoCodec

\* Registration happens during setup, before traffic; a request starts when
\* no other is running.
Setup == pc = "idle"
Quiet == pc \in {"idle", "done"}

\* Mutant: the child takes the parent's StrictErrorTypes pointer as it is.
MountSharesStrict(s, prefix, config) ==
    /\ Setup
    /\ LET eh == IF config.ErrorHandler = NoHandler THEN nodes[s].ErrorHandler
                 ELSE config.ErrorHandler
           strict == IF config.StrictErrorTypes = "nil" THEN nodes[s].StrictErrorTypes
                     ELSE IF config.strictRef # 0 THEN deref(config.strictRef)
                     ELSE config.StrictErrorTypes = "true"
           strictRef == IF config.StrictErrorTypes = "nil" THEN nodes[s].strictRef
                        ELSE IF config.strictRef # 0 THEN config.strictRef
                        ELSE newBool
           base == combineBasePath(<<nodes[s].BasePath, prefix, config.BasePath>>)
       IN /\ nodes' = Append(nodes, Node(s, base, eh, strict, strictRef))
          /\ middlewares' = Append(middlewares, <<>>)
    /\ UNCHANGED <<order, routes, concVars, codec>>
    /\ UNCHANGED reqVars

Mount(s, prefix, config) ==
    /\ Setup
    /\ LET eh == IF config.ErrorHandler = NoHandler THEN nodes[s].ErrorHandler
                 ELSE config.ErrorHandler
           strict == IF config.StrictErrorTypes = "nil" THEN nodes[s].StrictErrorTypes
                     ELSE IF config.strictRef # 0 THEN deref(config.strictRef)
                     ELSE config.StrictErrorTypes = "true"
           strictRef == IF config.StrictErrorTypes = "nil" THEN newBool
                        ELSE IF config.strictRef # 0 THEN config.strictRef
                        ELSE newBool
           base == combineBasePath(<<nodes[s].BasePath, prefix, config.BasePath>>)
       IN /\ nodes' = Append(nodes, Node(s, base, eh, strict, strictRef))
          /\ middlewares' = Append(middlewares, <<>>)
    /\ UNCHANGED <<order, routes, concVars, codec>>
    /\ UNCHANGED reqVars

\* handle registers the route under the node's base path joined with the
\* route's path.
fullPath(s, path) == joinPath(nodes[s].BasePath, path)
Use(s) ==
    /\ Setup
    /\ LET n == order + 1
           layer == [order |-> n, fn |-> Link("mw", s, n, 0, "")]
       IN /\ order' = n
          /\ middlewares' = [middlewares EXCEPT ![s] = Append(@, layer)]
    /\ UNCHANGED <<nodes, routes, concVars, codec>>
    /\ UNCHANGED reqVars

\* handle: the route entry takes the next order number; WithMiddleware gives
\* nmw route-scoped middleware, WithErrors the allowlist.
handle(s, nmw, expectedErrors) ==
    /\ Setup
    /\ LET n == order + 1
           r == Len(routes) + 1
           entry == [owner |-> s, order |-> n,
                     fn |-> Link("handler", s, n, 0, ""),
                     routeMiddleware |-> [i \in 1..nmw |-> Link("rmw", s, n, i, "")],
                     expectedErrors |-> expectedErrors]
       IN /\ order' = n
          /\ routes' = Append(routes, entry)
    /\ UNCHANGED <<nodes, middlewares, concVars, codec>>
    /\ UNCHANGED reqVars

\* The routers from the root down to s.
RECURSIVE ancestorsUp(_)
ancestorsUp(s) == IF s = 0 THEN <<>> ELSE <<s>> \o ancestorsUp(nodes[s].parent)

Reverse(q) == [i \in 1..Len(q) |-> q[Len(q) + 1 - i]]

\* Mutant: every node of the tree is taken, as the fallback path does.
allRouters(s) == [i \in 1..Len(nodes) |-> i]

ancestorChain(s) == Reverse(ancestorsUp(s))

\* ------------------------------------------------ concurrent registration
\* Use and handle called from several goroutines, step by step: the atomic Add
\* of orderSeq.Next, then for Use the append to the node's list under mwMu
\* (an append reads the slice and stores the longer one), for handle the route
\* entry, which no other goroutine shares.
Event(ev, g, op, s, n) == [ev |-> ev, g |-> g, op |-> op, node |-> s, n |-> n]

CallsMade == Cardinality({i \in 1..Len(history) : history[i].ev = "call"})

At_(g, step) == goroutines[g].pc = step

Goto(g, step) == [goroutines EXCEPT ![g].pc = step]

Call(g, op, s) ==
    /\ Setup
    /\ At_(g, "idle")
    /\ CallsMade < MaxCalls
    /\ goroutines' = [goroutines EXCEPT ![g] = [Idle EXCEPT !.pc = "Next", !.op = op,
                                                           !.node = s]]
    /\ history' = Append(history, Event("call", g, op, s, 0))
    /\ UNCHANGED <<nodes, order, middlewares, routes, mwMu, codec>>
    /\ UNCHANGED reqVars

orderNext(g) ==
    /\ At_(g, "Next")
    /\ order' = order + 1
    /\ goroutines' = [goroutines EXCEPT
                         ![g].n = order + 1,
                         ![g].pc = IF goroutines[g].op = "Use" THEN "Lock" ELSE "entry"]
    /\ UNCHANGED <<nodes, middlewares, routes, mwMu, history, codec>>
    /\ UNCHANGED reqVars

\* Mutant: the mutex does not exclude a second holder.
mwMuLockShared(g) ==
    /\ At_(g, "Lock")
    /\ mwMu' = mwMu \cup {goroutines[g].node}
    /\ goroutines' = Goto(g, "load")
    /\ UNCHANGED <<nodes, order, middlewares, routes, history, codec>>
    /\ UNCHANGED reqVars

\* The goroutines that hold the read lock of node s: dispatch is between
\* RLock and RUnlock of the router it copies the layers of.
Readers(s) ==
    {g \in 1..MaxGoroutines :
        /\ goroutines[g].op = "dispatchRoute"
        /\ goroutines[g].pc \in {"copy", "RUnlock"}
        /\ ancestorChain(routes[goroutines[g].node].owner)[goroutines[g].n] = s}

mwMuLock(g) ==
    /\ At_(g, "Lock")
    /\ goroutines[g].node \notin mwMu
    /\ Readers(goroutines[g].node) = {}
    /\ mwMu' = mwMu \cup {goroutines[g].node}
    /\ goroutines' = Goto(g, "load")
    /\ UNCHANGED <<nodes, order, middlewares, routes, history, codec>>
    /\ UNCHANGED reqVars

appendLoad(g) ==
    /\ At_(g, "load")
    /\ goroutines' = [goroutines EXCEPT ![g].local = middlewares[goroutines[g].node],
                                        ![g].pc = "store"]
    /\ UNCHANGED <<nodes, order, middlewares, routes, mwMu, history, codec>>
    /\ UNCHANGED reqVars

appendStore(g) ==
    /\ At_(g, "store")
    /\ LET me == goroutines[g]
           layer == [order |-> me.n, fn |-> Link("mw", me.node, me.n, 0, "")]
       IN middlewares' = [middlewares EXCEPT ![me.node] = Append(me.local, layer)]
    /\ goroutines' = Goto(g, "Unlock")
    /\ UNCHANGED <<nodes, order, routes, mwMu, history, codec>>
    /\ UNCHANGED reqVars

mwMuUnlock(g) ==
    /\ At_(g, "Unlock")
    /\ mwMu' = mwMu \ {goroutines[g].node}
    /\ goroutines' = [goroutines EXCEPT ![g] = Idle]
    /\ history' = Append(history, Event("return", g, "Use", goroutines[g].node,
                                       goroutines[g].n))
    /\ UNCHANGED <<nodes, order, middlewares, routes, codec>>
    /\ UNCHANGED reqVars

handleEntry(g) ==
    /\ At_(g, "entry")
    /\ LET me == goroutines[g]
           entry == [owner |-> me.node, order |-> me.n,
                     fn |-> Link("handler", me.node, me.n, 0, ""),
                     routeMiddleware |-> <<>>, expectedErrors |-> {}]
       IN routes' = Append(routes, entry)
    /\ goroutines' = [goroutines EXCEPT ![g] = Idle]
    /\ history' = Append(history, Event("return", g, "handle", goroutines[g].node,
                                       goroutines[g].n))
    /\ UNCHANGED <<nodes, order, middlewares, mwMu, codec>>
    /\ UNCHANGED reqVars

\* ----------------------------------------------------------- chain building
RECURSIVE concatLayers(_)
concatLayers(routers) ==
    IF routers = <<>> THEN <<>>
    ELSE middlewares[Head(routers)] \o concatLayers(Tail(routers))

RECURSIVE insertByOrder(_, _)
insertByOrder(layer, sorted) ==
    IF sorted = <<>> THEN <<layer>>
    ELSE IF layer.order < Head(sorted).order THEN <<layer>> \o sorted
    ELSE <<Head(sorted)>> \o insertByOrder(layer, Tail(sorted))

RECURSIVE sortByOrder(_)
sortByOrder(layers) ==
    IF layers = <<>> THEN <<>>
    ELSE insertByOrder(Head(layers), sortByOrder(Tail(layers)))

\* Mutant: the layers are concatenated root to leaf and left unsorted.
collectUnsorted(routers) == concatLayers(routers)

collectMiddlewareLayers(routers) == sortByOrder(concatLayers(routers))

Fns(layers) == [i \in 1..Len(layers) |-> layers[i].fn]

\* Mutant: every ancestor layer is placed before the route.
gatherAllBefore(entry) ==
    LET layers == collectMiddlewareLayers(ancestorChain(entry.owner))
    IN [before |-> Fns(layers), after |-> <<>>]

gatherRouteMiddleware(entry) ==
    LET layers == collectMiddlewareLayers(ancestorChain(entry.owner))
    IN [before |-> Fns(SelectSeq(layers, LAMBDA layer : layer.order < entry.order)),
        after |-> Fns(SelectSeq(layers, LAMBDA layer : ~(layer.order < entry.order)))]

\* Mutant: the route-scoped middleware is put in front of the before-layers.
routeChainScopedFirst(entry) ==
    LET g == gatherRouteMiddleware(entry) IN
    entry.routeMiddleware \o g.before \o <<entry.fn>> \o g.after

routeChain(entry) ==
    LET g == gatherRouteMiddleware(entry) IN
    g.before \o entry.routeMiddleware \o <<entry.fn>> \o g.after

\* The sort by BasePath length, as a stable insertion sort. sort.Slice leaves
\* the order of equal lengths open; the layers are sorted again by their
\* order numbers, which are unique, so the chain does not depend on it.
RECURSIVE insertByBasePath(_, _)
insertByBasePath(router, sorted) ==
    IF sorted = <<>> THEN <<router>>
    ELSE IF Len(nodes[router].BasePath) < Len(nodes[Head(sorted)].BasePath)
         THEN <<router>> \o sorted
    ELSE <<Head(sorted)>> \o insertByBasePath(router, Tail(sorted))

RECURSIVE sortByBasePath(_)
sortByBasePath(routers) ==
    IF routers = <<>> THEN <<>>
    ELSE insertByBasePath(Head(routers), sortByBasePath(Tail(routers)))

\* Mutant: every router of the registry is taken, whatever its BasePath.
matchingEveryRouter(path) == [i \in 1..Len(nodes) |-> i]

matchingRouters(path) ==
    LET matches == SelectSeq([i \in 1..Len(nodes) |-> i], LAMBDA i : matchesPath(i, path))
    IN sortByBasePath(matches)

fallbackChain(path, kind) ==
    LET layers == collectMiddlewareLayers(matchingRouters(path)) IN
    [i \in 1..Len(layers) |-> layers[i].fn] \o <<Link("terminal", 1, 0, 0, kind)>>

\* ------------------------------------------------------------ typed handler
BindOutcomes == {"ok", "parse", "validation"}

\* A field of the request type, by its path, query and header tags: "none"
\* where the field has no such tag, else whether setFieldValue accepts the
\* value the request carries for it.
TagStates == {"none", "ok", "bad"}

Field(path, query, header) == [path |-> path, query |-> query, header |-> header]

\* Fields with up to two of the three tags.
Fields ==
    {f \in {Field(p, q, h) : p \in TagStates, q \in TagStates, h \in TagStates} :
        "none" \in {f.path, f.query, f.header}}

\* The body of a request: its ContentLength (-1 where the length is unknown,
\* as with chunked transfer encoding), and what reading and decoding it give.
Body(ContentLength, read) == [ContentLength |-> ContentLength, read |-> read]

NoBody == Body(0, "empty")

Bodies ==
    {NoBody} \cup {Body(n, r) : n \in {-1, 1}, r \in {"json", "invalid", "unreadable"}}

\* A request as the typed handler sees it; valid tells whether the bound and
\* decoded request value passes the constraints of its type.
Request(fields, body, valid) == [fields |-> fields, body |-> body, valid |-> valid]

SeqsUpTo(S, n) == UNION {[1..k -> S] : k \in 0..n}

AllRequests ==
    {Request(f, b, v) : f \in SeqsUpTo(Fields, MaxFields), b \in Bodies, v \in BOOLEAN}

\* One request for each outcome of binding.
Requests ==
    {Request(<<>>, NoBody, TRUE),
     Request(<<Field("none", "bad", "none")>>, NoBody, TRUE),
     Request(<<>>, NoBody, FALSE)}

Step(op, field, ok) == [op |-> op, field |-> field, ok |-> ok]

Bound(outcome, log) == [outcome |-> outcome, log |-> log]

\* What a step of the chain keeps of a binding: the request with the outcome
\* and the log of its binding; NoBinding for a step that binds nothing.
Binding(req, b) == [req |-> req, outcome |-> b.outcome, log |-> b.log]

NoBinding == Binding(Request(<<>>, NoBody, TRUE), Bound("", <<>>))

\* The three tags of field i in the order the loop reads them; the first
\* setFieldValue that fails ends the binding.
bindField(fields, i, log) ==
    LET f == fields[i]
        l1 == IF f.path = "none" THEN log ELSE Append(log, Step("path", i, f.path = "ok"))
        l2 == IF f.query = "none" THEN l1 ELSE Append(l1, Step("query", i, f.query = "ok"))
        l3 == IF f.header = "none" THEN l2 ELSE Append(l2, Step("header", i, f.header = "ok"))
    IN IF f.path = "bad" THEN Bound("parse", l1)
       ELSE IF f.query = "bad" THEN Bound("parse", l2)
       ELSE IF f.header = "bad" THEN Bound("parse", l3)
       ELSE Bound("ok", l3)

RECURSIVE bindFields(_, _, _)
bindFields(fields, i, log) ==
    IF i > Len(fields) THEN Bound("ok", log)
    ELSE LET b == bindField(fields, i, log) IN
         IF b.outcome # "ok" THEN b ELSE bindFields(fields, i + 1, b.log)

\* The body is read and decoded only when ContentLength > 0.
decodeBody(body, log) ==
    IF body.ContentLength > 0
    THEN IF body.read = "unreadable" THEN Bound("parse", Append(log, Step("read", 0, FALSE)))
         ELSE IF body.read = "invalid"
         THEN Bound("parse", Append(log, Step("decode", 0, FALSE)))
         ELSE Bound("ok", Append(log, Step("decode", 0, TRUE)))
    ELSE Bound("ok", log)

\* wrap up to the call of the user handler: the fields in order, then the
\* body, then the validation of the request value.
bindRequest(req) ==
    LET f == bindFields(req.fields, 1, <<>>) IN
    IF f.outcome # "ok" THEN f
    ELSE LET d == decodeBody(req.body, f.log) IN
         IF d.outcome # "ok" THEN d
         ELSE IF ~req.valid
         THEN Bound("validation", Append(d.log, Step("validate", 0, FALSE)))
         ELSE Bound("ok", Append(d.log, Step("validate", 0, TRUE)))

Result(tag, isNil, valid, required, plain, encodes, status, err) ==
    [tag |-> tag, isNil |-> isNil, valid |-> valid, required |-> required,
     plain |-> plain, encodes |-> encodes, status |-> status, err |-> err]

\* What the user handler returns: a response (a value that passes or fails
\* the constraints of its type, or nil), ErrNext, or an error.  The response
\* type declares its status, has required fields or none, and has plain JSON
\* fields (fields encoded whatever their value, not marked omitempty) or
\* none.  A value that passes its constraints may still have no JSON encoding
\* (a NaN float).
HandlerResults ==
    {Result("ok", FALSE, v, rq, TRUE, TRUE, st, NilErr) :
         v \in BOOLEAN, rq \in BOOLEAN, st \in {StatusOK, StatusNoContent}}
    \cup {Result("ok", FALSE, TRUE, FALSE, TRUE, FALSE, st, NilErr) :
              st \in {StatusOK, StatusNoContent}}
    \cup {Result("ok", TRUE, TRUE, rq, pl, TRUE, st, NilErr) :
              rq \in BOOLEAN, pl \in BOOLEAN, st \in {StatusOK, StatusNoContent}}
    \cup {Result("ErrNext", FALSE, TRUE, FALSE, FALSE, TRUE, 0, ErrNext)}
    \cup {Result("err", FALSE, TRUE, FALSE, FALSE, TRUE, 0, e) : e \in UserErrs}

\* Three of them: a response that passes, a response that fails, an error.
BindResults ==
    {Result("ok", FALSE, v, FALSE, TRUE, TRUE, StatusOK, NilErr) : v \in BOOLEAN}
    \cup {Result("err", FALSE, TRUE, FALSE, FALSE, TRUE, 0, PlainError)}

\* The handler returned nothing: neither a response nor an error.
NoResult == Result("", TRUE, TRUE, FALSE, FALSE, TRUE, 0, NilErr)

Outcome(w, eh, next, invoked) == [w |-> w, eh |-> eh, next |-> next, invoked |-> invoked]

FromHandleError(r, invoked) == Outcome(r.w, r.eh, "none", invoked)

\* Mutant: a nil response is validated as if it were a value that passes.
validateRespNilPasses(res) == IF res.isNil THEN TRUE ELSE res.valid

\* s.validate.Struct(respDTO): a nil response was replaced by new(Resp), the
\* zero value, which fails exactly the required constraint.
validateResp(res) == IF res.isNil THEN ~res.required ELSE res.valid

\* The JSON object Encode writes for the response: toJSONMap leaves out the
\* omitempty fields that are zero, so the zero value of a type gives the
\* empty object exactly when the type has no plain field.
prepareResponseBody(res) ==
    IF res.isNil THEN (IF res.plain THEN "{zero fields}" ELSE "{}")
    ELSE "{value}"
\* The success path of wrap after validation: WriteHeader(statusCode), then
\* the body unless shouldWriteBody forbids one.  Encode works on a buffer of
\* its own, so a value without a JSON encoding leaves no body bytes behind and
\* raises Serialization after the status line was sent.
writeResponse(s, m, res) ==
    LET statusCode == res.status
        body == shouldWriteBody(m, statusCode)
    IN IF body /\ ~res.encodes
       THEN LET r == handleError(s, m, SproutError(ErrorKindSerialization)) IN
            Outcome(<<Write("handler", statusCode, FALSE)>> \o r.w, r.eh, "none", TRUE)
       ELSE Outcome(<<WriteText("handler", statusCode, body,
                                IF body THEN prepareResponseBody(res) ELSE "")>>,
                    <<>>, "none", TRUE)
\* Mutant: an undeclared error is never rejected, strict mode or not.
wrapErrorLenient(entry, m, err) ==
    LET s == entry.owner
        declared == err.type \in entry.expectedErrors
        t == writeTypedErrorResponse(s, m, err, StatusInternalServerError, StrictOf(s))
    IN IF declared /\ t.handled THEN Outcome(t.w, <<>>, "none", TRUE)
       ELSE IF declared /\ t.fallbackErr # NilErr
       THEN FromHandleError(handleError(s, m, t.fallbackErr), TRUE)
       ELSE FromHandleError(handleError(s, m, err), TRUE)

\* Mutant: an undeclared error is rejected on non-strict nodes too.
wrapErrorStrictAlways(entry, m, err) ==
    LET s == entry.owner
        declared == err.type \in entry.expectedErrors
        t == writeTypedErrorResponse(s, m, err, StatusInternalServerError, StrictOf(s))
    IN IF declared /\ t.handled THEN Outcome(t.w, <<>>, "none", TRUE)
       ELSE IF declared /\ t.fallbackErr # NilErr
       THEN FromHandleError(handleError(s, m, t.fallbackErr), TRUE)
       ELSE FromHandleError(handleError(s, m, SproutError(ErrorKindUndeclaredError)), TRUE)

\* Mutant: a declared error is validated on non-strict nodes too.
wrapErrorValidating(entry, m, err) ==
    LET s == entry.owner
        declared == err.type \in entry.expectedErrors
        t == writeTypedErrorResponse(s, m, err, StatusInternalServerError, TRUE)
    IN IF declared /\ t.handled THEN Outcome(t.w, <<>>, "none", TRUE)
       ELSE IF declared /\ t.fallbackErr # NilErr
       THEN FromHandleError(handleError(s, m, t.fallbackErr), TRUE)
       ELSE IF StrictOf(s)
       THEN FromHandleError(handleError(s, m, SproutError(ErrorKindUndeclaredError)), TRUE)
       ELSE FromHandleError(handleError(s, m, err), TRUE)

\* Mutant: a declared error is handed to handleError like any other.
wrapErrorViaHandler(entry, m, err) ==
    LET s == entry.owner
        declared == err.type \in entry.expectedErrors
    IN IF declared THEN FromHandleError(handleError(s, m, err), TRUE)
       ELSE IF StrictOf(s)
       THEN FromHandleError(handleError(s, m, SproutError(ErrorKindUndeclaredError)), TRUE)
       ELSE FromHandleError(handleError(s, m, err), TRUE)

\* Mutant: on a non-strict node an undeclared error is written as a typed
\* response by the pipeline before any ErrorHandler sees it.
wrapErrorTypedFirst(entry, m, err) ==
    LET s == entry.owner
        t == writeTypedErrorResponse(s, m, err, StatusInternalServerError, StrictOf(s))
    IN IF t.handled THEN Outcome(t.w, <<>>, "none", TRUE)
       ELSE IF t.fallbackErr # NilErr
       THEN FromHandleError(handleError(s, m, t.fallbackErr), TRUE)
       ELSE IF StrictOf(s)
       THEN FromHandleError(handleError(s, m, SproutError(ErrorKindUndeclaredError)), TRUE)
       ELSE FromHandleError(handleError(s, m, err), TRUE)
wrapError(entry, m, err) ==
    LET s == entry.owner
        declared == err.type \in entry.expectedErrors
        enforceValidation == StrictOf(s)
        t == writeTypedErrorResponse(s, m, err, StatusInternalServerError, enforceValidation)
    IN IF declared /\ t.handled
       THEN LET r == handleError(s, m, t.fallbackErr) IN
            Outcome(t.w \o r.w, r.eh, "none", TRUE)
       ELSE IF declared /\ t.fallbackErr # NilErr
       THEN FromHandleError(handleError(s, m, t.fallbackErr), TRUE)
       ELSE IF StrictOf(s)
       THEN FromHandleError(handleError(s, m, SproutError(ErrorKindUndeclaredError)), TRUE)
       ELSE FromHandleError(handleError(s, m, err), TRUE)

\* Mutant: the response is written first and validated afterwards.
wrapWriteThenValidate(entry, m, bind, res) ==
    LET s == entry.owner IN
    IF bind = "parse"
    THEN FromHandleError(handleError(s, m, SproutError(ErrorKindParse)), FALSE)
    ELSE IF bind = "validation"
    THEN FromHandleError(handleError(s, m, SproutError(ErrorKindValidation)), FALSE)
    ELSE IF res.tag = "ErrNext" THEN Outcome(<<>>, <<>>, "nil", TRUE)
    ELSE IF res.tag = "err" THEN wrapError(entry, m, res.err)
    ELSE IF ~validateResp(res)
    THEN LET o == writeResponse(s, m, res)
             r == handleError(s, m, SproutError(ErrorKindResponseValidation))
         IN Outcome(o.w \o r.w, o.eh \o r.eh, "none", TRUE)
    ELSE writeResponse(s, m, res)
\* Mutant: the typed handler also advances after writing a success response.
wrapAdvanceOnOk(entry, m, bind, res) ==
    LET s == entry.owner IN
    IF bind = "parse"
    THEN FromHandleError(handleError(s, m, SproutError(ErrorKindParse)), FALSE)
    ELSE IF bind = "validation"
    THEN FromHandleError(handleError(s, m, SproutError(ErrorKindValidation)), FALSE)
    ELSE IF res.tag = "ErrNext" THEN Outcome(<<>>, <<>>, "nil", TRUE)
    ELSE IF res.tag = "err" THEN wrapError(entry, m, res.err)
    ELSE IF ~validateResp(res)
    THEN FromHandleError(handleError(s, m, SproutError(ErrorKindResponseValidation)), TRUE)
    ELSE [writeResponse(s, m, res) EXCEPT !.next = "nil"]

\* Mutant: ErrNext from the user handler is classified like any other error
\* before the chain advances.
wrapErrNextAsError(entry, m, bind, res) ==
    LET s == entry.owner IN
    IF bind = "parse"
    THEN FromHandleError(handleError(s, m, SproutError(ErrorKindParse)), FALSE)
    ELSE IF bind = "validation"
    THEN FromHandleError(handleError(s, m, SproutError(ErrorKindValidation)), FALSE)
    ELSE IF res.tag = "ErrNext"
    THEN LET o == wrapError(entry, m, res.err) IN Outcome(o.w, o.eh, "nil", TRUE)
    ELSE IF res.tag = "err" THEN wrapError(entry, m, res.err)
    ELSE IF ~validateResp(res)
    THEN FromHandleError(handleError(s, m, SproutError(ErrorKindResponseValidation)), TRUE)
    ELSE writeResponse(s, m, res)

wrap(entry, m, bind, res) ==
    LET s == entry.owner IN
    IF bind = "parse"
    THEN FromHandleError(handleError(s, m, SproutError(ErrorKindParse)), FALSE)
    ELSE IF bind = "validation"
    THEN FromHandleError(handleError(s, m, SproutError(ErrorKindValidation)), FALSE)
    ELSE IF res.tag = "ErrNext" THEN Outcome(<<>>, <<>>, "nil", TRUE)
    ELSE IF res.tag = "err" THEN wrapError(entry, m, res.err)
    ELSE IF ~validateResp(res)
    THEN FromHandleError(handleError(s, m, SproutError(ErrorKindResponseValidation)), TRUE)
    ELSE writeResponse(s, m, res)

\* ----------------------------------------------------------------- dispatch
\* dispatchRoute works from the route entry alone; the path of a matched
\* request is not kept.
StartRequest(c, o, m, r, path) ==
    /\ chain' = c
    /\ reqPath' = path
    /\ owner' = o
    /\ method' = m
    /\ reqRoute' = r
    /\ trace' = <<>>
    /\ writes' = <<>>
    /\ ehCalls' = <<>>
    /\ handlerCalls' = 0
    /\ idx' = 1
    /\ pc' = IF c = <<>> THEN "done" ELSE "run"

dispatchRoute(r, m) ==
    /\ Quiet
    /\ r \in 1..Len(routes)
    /\ StartRequest(routeChain(routes[r]), routes[r].owner, m, r, <<>>)
    /\ UNCHANGED regVars

dispatchFallback(path, kind, m) ==
    /\ Quiet
    /\ StartRequest(fallbackChain(path, kind), 1, m, 0, path)
    /\ UNCHANGED regVars

\* ----------------------------------------------------------------- runChain
\* Writes and ErrorHandler calls are stamped with the chain position of the
\* link during whose call they happened.
At(pos, q) == [i \in 1..Len(q) |-> [pos |-> pos, v |-> q[i]]]

\* Mutant: after handleChainError the chain goes on with link i.
execGoesOnAfterError(i, err) ==
    LET e == IF err = ErrNext THEN NilErr ELSE err
        r == IF e # NilErr THEN handleChainError(owner, method, e)
             ELSE [w |-> <<>>, eh |-> <<>>]
    IN IF i > Len(chain) THEN [w |-> r.w, eh |-> r.eh, idx |-> idx, pc |-> "done"]
       ELSE [w |-> r.w, eh |-> r.eh, idx |-> i, pc |-> "run"]
\* exec(i, err): a non-nil error other than ErrNext ends the chain in
\* handleChainError; otherwise link i runs if there is one.
\* Mutant: next(ErrNext) skips the link that would run next.
execSkipOnErrNext(i, err) ==
    LET e == IF err = ErrNext THEN NilErr ELSE err
        k == IF err = ErrNext THEN i + 1 ELSE i
    IN
    IF e # NilErr
    THEN LET r == handleChainError(owner, method, e) IN
         [w |-> r.w, eh |-> r.eh, idx |-> idx, pc |-> "done"]
    ELSE IF k > Len(chain) THEN [w |-> <<>>, eh |-> <<>>, idx |-> idx, pc |-> "done"]
    ELSE [w |-> <<>>, eh |-> <<>>, idx |-> k, pc |-> "run"]

exec(i, err) ==
    LET e == IF err = ErrNext THEN NilErr ELSE err IN
    IF e # NilErr
    THEN LET r == handleChainError(owner, method, e) IN
         [w |-> r.w, eh |-> r.eh, idx |-> idx, pc |-> "done"]
    ELSE IF i > Len(chain) THEN [w |-> <<>>, eh |-> <<>>, idx |-> idx, pc |-> "done"]
    ELSE [w |-> <<>>, eh |-> <<>>, idx |-> i, pc |-> "run"]

\* One executed link: its place in the chain, what it did (a middleware
\* returns or calls next; the typed handler ends in a binding failure or in
\* what the user handler returned), the error involved, whether it called next.
Ran(link, pos, act, err, bind, res, next) ==
    [link |-> link, pos |-> pos, act |-> act, err |-> err, bind |-> bind, res |-> res,
     next |-> next]

MwErrs == {TeapotError(TRUE), TeapotError(FALSE), PlainError}

\* Mutant: a middleware that returns without next still lets the chain go on.
MiddlewareFallsThrough(wrote) ==
    /\ pc = "run"
    /\ chain[idx].kind \in {"mw", "rmw"}
    /\ trace' = Append(trace, Ran(chain[idx], idx, "return", NilErr, NoBinding, NoResult, FALSE))
    /\ writes' = IF wrote
                 THEN writes \o At(idx, <<Write("middleware", StatusOK, TRUE)>>)
                 ELSE writes
    /\ pc' = IF idx < Len(chain) THEN "run" ELSE "done"
    /\ idx' = IF idx < Len(chain) THEN idx + 1 ELSE idx
    /\ UNCHANGED <<chain, owner, method, reqRoute, reqPath, ehCalls, handlerCalls>>
    /\ UNCHANGED regVars

\* A middleware returns without calling next, having written a response or not.
MiddlewareReturns(wrote) ==
    /\ pc = "run"
    /\ chain[idx].kind \in {"mw", "rmw"}
    /\ trace' = Append(trace, Ran(chain[idx], idx, "return", NilErr, NoBinding, NoResult, FALSE))
    /\ writes' = IF wrote
                 THEN writes \o At(idx, <<Write("middleware", StatusOK, TRUE)>>)
                 ELSE writes
    /\ pc' = "done"
    /\ UNCHANGED <<chain, idx, owner, method, reqRoute, reqPath, ehCalls, handlerCalls>>
    /\ UNCHANGED regVars

\* A middleware calls next(err).
MiddlewareNext(err) ==
    /\ pc = "run"
    /\ chain[idx].kind \in {"mw", "rmw"}
    /\ LET x == exec(idx + 1, err) IN
          /\ trace' = Append(trace, Ran(chain[idx], idx, "next", err, NoBinding, NoResult, TRUE))
          /\ writes' = writes \o At(idx, x.w)
          /\ ehCalls' = ehCalls \o At(idx, x.eh)
          /\ idx' = x.idx
          /\ pc' = x.pc
    /\ UNCHANGED <<chain, owner, method, reqRoute, reqPath, handlerCalls>>
    /\ UNCHANGED regVars

\* The typed handler of the matched route runs on the request; it calls
\* next(nil) when the user handler returned ErrNext.
TypedHandler(req, res) ==
    /\ pc = "run"
    /\ chain[idx].kind = "handler"
    /\ LET b == bindRequest(req)
           bind == b.outcome
           o == wrap(routes[reqRoute], method, bind, res)
           x == IF o.next = "nil" THEN exec(idx + 1, NilErr)
                ELSE [w |-> <<>>, eh |-> <<>>, idx |-> idx, pc |-> "done"]
       IN /\ trace' = Append(trace, Ran(chain[idx], idx,
                                        IF bind # "ok" THEN bind ELSE res.tag,
                                        IF bind = "ok" THEN res.err ELSE NilErr,
                                        Binding(req, b),
                                        IF bind = "ok" THEN res ELSE NoResult,
                                        o.next = "nil"))
          /\ handlerCalls' = handlerCalls + (IF o.invoked THEN 1 ELSE 0)
          /\ writes' = writes \o At(idx, o.w \o x.w)
          /\ ehCalls' = ehCalls \o At(idx, o.eh \o x.eh)
          /\ idx' = x.idx
          /\ pc' = x.pc
    /\ UNCHANGED <<chain, owner, method, reqRoute, reqPath>>
    /\ UNCHANGED regVars

\* The fallback step raises NotFound or MethodNotAllowed on the root.
Terminal ==
    /\ pc = "run"
    /\ chain[idx].kind = "terminal"
    /\ LET r == handleError(chain[idx].node, method, SproutError(chain[idx].arg)) IN
          /\ writes' = writes \o At(idx, r.w)
          /\ ehCalls' = ehCalls \o At(idx, r.eh)
    /\ trace' = Append(trace, Ran(chain[idx], idx, "fallback", NilErr, NoBinding, NoResult, FALSE))
    /\ pc' = "done"
    /\ UNCHANGED <<chain, idx, owner, method, reqRoute, reqPath, handlerCalls>>
    /\ UNCHANGED regVars

\* --------------------------------------------------------- specifications
\* Spec: the ordering engine.  Any tree of nodes, Use and route registrations
\* on any node in any order (MaxSetup nodes and registrations together), then
\* matched requests whose links behave in every way.
Init == InitWith({1}, {"nil"}, {<<>>})

NilConfig ==
    [isNil |-> TRUE, ErrorHandler |-> NoHandler, StrictErrorTypes |-> "nil", strictRef |-> 0,
     BasePath |-> <<>>]

Room == Len(nodes) + order < MaxSetup

Register ==
    \/ \E s \in 1..Len(nodes) : Room /\ Mount(s, <<"/", "a">>, NilConfig)
    \/ \E s \in 1..Len(nodes) : Room /\ Use(s)
    \/ \E s \in 1..Len(nodes) : Room /\ Len(routes) < MaxRoutes /\ handle(s, 0, {})

Run ==
    \/ \E wrote \in BOOLEAN : MiddlewareReturns(wrote)
    \/ \E err \in {NilErr, ErrNext} \cup MwErrs : MiddlewareNext(err)
    \/ \E req \in Requests, res \in HandlerResults : TypedHandler(req, res)

Next ==
    \/ Register
    \/ \E r \in 1..Len(routes), m \in Methods : dispatchRoute(r, m)
    \/ Run

Spec == Init /\ [][Next]_vars

\* SpecErr: the error pipeline.  Every root configuration, Mount with and
\* without overrides, routes with every allowlist, in small setups.
InitErr == InitWith(RootHandlers, RootStrict, {<<>>})

RoomErr == Len(nodes) + order < MaxErrSetup

RegisterErr ==
    \/ \E s \in 1..Len(nodes), config \in MountConfigs :
           RoomErr /\ Mount(s, <<"/", "a">>, config)
    \/ \E s \in 1..Len(nodes) : RoomErr /\ Use(s)
    \/ \E s \in 1..Len(nodes), ee \in Allowlists :
           RoomErr /\ Len(routes) < MaxRoutes /\ handle(s, 0, ee)

\* What the handlers of the error pipeline return: every error, ErrNext, and
\* of the responses those with status 200 that are there and encode.
ErrResults ==
    {res \in HandlerResults :
        res.tag = "ok" => res.status = StatusOK /\ ~res.isNil /\ res.encodes /\ ~res.required}

NextErr ==
    \/ RegisterErr
    \/ \E r \in 1..Len(routes), m \in Methods : dispatchRoute(r, m)
    \/ \E wrote \in BOOLEAN : MiddlewareReturns(wrote)
    \/ \E err \in {NilErr, ErrNext} \cup MwErrs : MiddlewareNext(err)
    \/ \E req \in Requests, res \in ErrResults : TypedHandler(req, res)

SpecErr == InitErr /\ [][NextErr]_vars

\* SpecFallback: matched and unmatched requests over mounted prefixes.
InitFallback == InitWith(RootHandlers, {"nil"}, RootBases)

RoomFallback == Len(nodes) + order < MaxFbSetup

RegisterFallback ==
    \/ \E s \in 1..Len(nodes), prefix \in Prefixes :
           RoomFallback /\ Mount(s, prefix, NilConfig)
    \/ \E s \in 1..Len(nodes) : RoomFallback /\ Use(s)
    \/ \E s \in 1..Len(nodes) :
           RoomFallback /\ Len(routes) < MaxRoutes /\ handle(s, 0, {})

NextFallback ==
    \/ RegisterFallback
    \/ \E r \in 1..Len(routes), m \in Methods : dispatchRoute(r, m)
    \/ \E path \in Paths, kind \in {ErrorKindNotFound, ErrorKindMethodNotAllowed},
          m \in Methods : dispatchFallback(path, kind, m)
    \/ \E wrote \in BOOLEAN : MiddlewareReturns(wrote)
    \/ \E err \in {NilErr, ErrNext} \cup MwErrs : MiddlewareNext(err)
    \/ \E req \in Requests, res \in BindResults \cup {Result("ErrNext", FALSE, TRUE, FALSE, FALSE, TRUE, 0, ErrNext)} :
           TypedHandler(req, res)
    \/ Terminal

SpecFallback == InitFallback /\ [][NextFallback]_vars

\* SpecRouteMw: routes that carry route-scoped middleware (WithMiddleware).
RoomRouteMw == Len(nodes) + order < MaxRmwSetup

RegisterRouteMw ==
    \/ \E s \in 1..Len(nodes) : RoomRouteMw /\ Mount(s, <<"/", "a">>, NilConfig)
    \/ \E s \in 1..Len(nodes) : RoomRouteMw /\ Use(s)
    \/ \E s \in 1..Len(nodes), nmw \in 0..MaxRouteMw :
           RoomRouteMw /\ Len(routes) < MaxRoutes /\ handle(s, nmw, {})

NextRouteMw ==
    \/ RegisterRouteMw
    \/ \E r \in 1..Len(routes), m \in Methods : dispatchRoute(r, m)
    \/ Run

SpecRouteMw == Init /\ [][NextRouteMw]_vars

\* SpecGlobal: unmatched requests against roots configured with a BasePath.
InitGlobal == InitWith({1}, {"nil"}, RootBasePaths)

RoomGlobal == Len(nodes) + order < MaxGlobalSetup

NextGlobal ==
    \/ \E s \in 1..Len(nodes), prefix \in Prefixes :
           RoomGlobal /\ Mount(s, prefix, NilConfig)
    \/ \E s \in 1..Len(nodes) : RoomGlobal /\ Use(s)
    \/ \E path \in Paths, kind \in {ErrorKindNotFound, ErrorKindMethodNotAllowed},
          m \in Methods : dispatchFallback(path, kind, m)
    \/ \E wrote \in BOOLEAN : MiddlewareReturns(wrote)
    \/ \E err \in {NilErr, ErrNext} \cup MwErrs : MiddlewareNext(err)
    \/ Terminal

SpecGlobal == InitGlobal /\ [][NextGlobal]_vars

\* SpecConc: a root and a mounted node, then goroutines that call Use and
\* handle on them at the same time.
NextConc ==
    \/ history = <<>> /\ Len(nodes) = 1 /\ Mount(1, <<"/", "a">>, NilConfig)
    \/ \E g \in 1..MaxGoroutines, op \in {"Use", "handle"}, s \in 1..Len(nodes) :
           Call(g, op, s)
    \/ \E g \in 1..MaxGoroutines : orderNext(g)
    \/ \E g \in 1..MaxGoroutines : mwMuLock(g)
    \/ \E g \in 1..MaxGoroutines : appendLoad(g)
    \/ \E g \in 1..MaxGoroutines : appendStore(g)
    \/ \E g \in 1..MaxGoroutines : mwMuUnlock(g)
    \/ \E g \in 1..MaxGoroutines : handleEntry(g)

SpecConc == Init /\ [][NextConc]_vars

\* SpecPipeline: the request pipeline end to end.  Every root configuration,
\* one Mount with or without overrides, routes with every allowlist, matched
\* and unmatched requests.
RoomPipeline == Len(nodes) + order < MaxPipeSetup

RegisterPipeline ==
    \/ \E s \in 1..Len(nodes), config \in MountConfigs :
           RoomPipeline /\ Mount(s, <<"/", "a">>, config)
    \/ \E s \in 1..Len(nodes) : RoomPipeline /\ Use(s)
    \/ \E s \in 1..Len(nodes), ee \in Allowlists :
           RoomPipeline /\ Len(routes) < MaxRoutes /\ handle(s, 0, ee)

NextPipeline ==
    \/ RegisterPipeline
    \/ \E r \in 1..Len(routes), m \in Methods : dispatchRoute(r, m)
    \/ \E kind \in {ErrorKindNotFound, ErrorKindMethodNotAllowed}, m \in Methods :
           dispatchFallback(<<"/", "a", "/", "b">>, kind, m)
    \/ Run
    \/ Terminal

SpecPipeline == InitErr /\ [][NextPipeline]_vars

\* SpecBind: one route on the root, with or without an ErrorHandler, and
\* every request of up to MaxFields tagged fields with every body.
InitBind == InitWith(RootHandlers, {"nil"}, {<<>>})

NextBind ==
    \/ Len(routes) < 1 /\ handle(1, 0, {})
    \/ \E m \in Methods : dispatchRoute(1, m)
    \/ pc = "run" /\ \E req \in AllRequests, res \in BindResults : TypedHandler(req, res)

SpecBind == InitBind /\ [][NextBind]_vars

\* SpecBody: one route on the root behind at most one middleware, requests
\* of every method, handlers whose response and error types declare every
\* kind of status.
BodyMethods == {"GET", "HEAD", "POST"}

\* 1xx, the three statuses without content, and statuses with content.
BodyStatuses ==
    {100, 199, StatusOK, 201, StatusNoContent, StatusResetContent, StatusNotModified,
     StatusTeapot}

StatusError(status) == Err("struct", "StatusError", TRUE, status, "")

BodyResults ==
    {Result("ok", FALSE, TRUE, FALSE, TRUE, enc, st, NilErr) :
         enc \in BOOLEAN, st \in BodyStatuses}
    \cup {Result("err", FALSE, TRUE, FALSE, FALSE, TRUE, 0, StatusError(st)) :
              st \in BodyStatuses}

InitBody == InitWith(RootHandlers, {"true", "false"}, {<<>>})

NextBody ==
    \/ order < MaxBodySetup /\ Use(1)
    \/ \E ee \in {{}, {"StatusError"}} :
           order < MaxBodySetup /\ Len(routes) < 1 /\ handle(1, 0, ee)
    \/ \E m \in BodyMethods : Len(routes) = 1 /\ dispatchRoute(1, m)
    \/ \E err \in {NilErr} \cup {StatusError(st) : st \in BodyStatuses} :
           MiddlewareNext(err)
    \/ pc = "run" /\ \E res \in BodyResults :
           TypedHandler(Request(<<>>, NoBody, TRUE), res)

SpecBody == InitBody /\ [][NextBody]_vars

\* SpecMount: a root with any base path and Mount with any prefix, both
\* strings of "/", "a" and " " of up to MaxPathLen characters, with and
\* without a base path in the overrides.
PathStrings == SeqsUpTo({"/", "a", " "}, MaxPathLen)

MountBases == {<<>>, <<"/", "c">>}

InitMount == InitWith({NoHandler}, {"nil"}, PathStrings)

NextMount ==
    \E s \in 1..Len(nodes), prefix \in PathStrings, base \in MountBases :
        /\ Len(nodes) <= MaxMounts
        /\ Mount(s, prefix, [NilConfig EXCEPT !.isNil = FALSE, !.BasePath = base])

SpecMount == InitMount /\ [][NextMount]_vars

\* SpecConfig: Mount with every kind of overrides, and the writes a holder
\* of a node's Config can make to it afterwards.
\* s.config.ErrorHandler = h
SetErrorHandler(s, h) ==
    /\ Setup
    /\ nodes[s].ErrorHandler # h
    /\ nodes' = [nodes EXCEPT ![s].ErrorHandler = h]
    /\ UNCHANGED <<order, middlewares, routes, concVars, codec>>
    /\ UNCHANGED reqVars

\* *s.config.StrictErrorTypes = v: every node whose pointer is to the same
\* bool reads the new value.
SetStrict(s, v) ==
    /\ Setup
    /\ nodes[s].StrictErrorTypes # v
    /\ nodes' = [n \in 1..Len(nodes) |->
                    IF nodes[n].strictRef = nodes[s].strictRef
                    THEN [nodes[n] EXCEPT !.StrictErrorTypes = v]
                    ELSE nodes[n]]
    /\ UNCHANGED <<order, middlewares, routes, concVars, codec>>
    /\ UNCHANGED reqVars

\* s.config.StrictErrorTypes = &v, a bool of its own.
PointStrict(s, v) ==
    /\ Setup
    /\ newBool <= MaxBools
    /\ nodes' = [nodes EXCEPT ![s].StrictErrorTypes = v, ![s].strictRef = newBool]
    /\ UNCHANGED <<order, middlewares, routes, concVars, codec>>
    /\ UNCHANGED reqVars

\* Overrides: a nil Config, or a Config with or without an ErrorHandler and
\* with StrictErrorTypes nil, a pointer to a bool of the caller's own, or a
\* pointer to the bool a node's StrictErrorTypes already points to.
ConfigOverrides ==
    {NilConfig}
    \cup {[isNil |-> FALSE, ErrorHandler |-> eh, StrictErrorTypes |-> strict, strictRef |-> 0,
           BasePath |-> <<>>] : eh \in {NoHandler, 2}, strict \in RootStrict}
    \cup {[isNil |-> FALSE, ErrorHandler |-> eh, StrictErrorTypes |-> "shared",
           strictRef |-> nodes[n].strictRef, BasePath |-> <<>>] :
              eh \in {NoHandler, 2}, n \in 1..Len(nodes)}

InitConfig == InitWith(RootHandlers, RootStrict, {<<>>})

NextConfig ==
    \/ \E s \in 1..Len(nodes), config \in ConfigOverrides :
           Len(nodes) < MaxConfigNodes /\ Mount(s, <<"/", "a">>, config)
    \/ \E s \in 1..Len(nodes), h \in {NoHandler, 1, 2} : SetErrorHandler(s, h)
    \/ \E s \in 1..Len(nodes), v \in BOOLEAN : SetStrict(s, v)
    \/ \E s \in 1..Len(nodes), v \in BOOLEAN : PointStrict(s, v)

SpecConfig == InitConfig /\ [][NextConfig]_vars

\* -------------------------------------------------------------- properties
\* Vocabulary of the properties, stated on the registrations themselves
\* (parent links, per-node lists, order numbers), not on the chain built.
Matched == pc \in {"run", "done"} /\ reqRoute # 0

Entry == routes[reqRoute]

RECURSIVE OnAncestorChain(_, _)
OnAncestorChain(a, n) == n # 0 /\ (a = n \/ OnAncestorChain(a, nodes[n].parent))

Depth(n) == Cardinality({a \in 1..Len(nodes) : OnAncestorChain(a, n)})

\* Order numbers of the Use layers registered on node n.
OrdersOn(n) == {middlewares[n][i].order : i \in 1..Len(middlewares[n])}

\* Order numbers of the Use layers on the ancestor chain of the matched route.
ChainOrders == UNION {OrdersOn(a) : a \in {b \in 1..Len(nodes) : OnAncestorChain(b, Entry.owner)}}

IsMw(i) == trace[i].link.kind = "mw"
IsTyped(i) == trace[i].link.kind = "handler"
Positions == 1..Len(trace)

\* C1: for a request matched to a route of order r on node N, when the typed
\* handler runs every ancestor-chain middleware of order < r has run before it;
\* the middleware that run do so in increasing order number; and a middleware
\* of order >= r runs only after the typed handler.
C1_OrderInvariant ==
    Matched =>
        /\ \A i \in Positions : IsTyped(i) =>
               {trace[j].link.order : j \in {k \in 1..(i - 1) : IsMw(k)}}
                   = {o \in ChainOrders : o < Entry.order}
        /\ \A i, j \in Positions :
               (i < j /\ IsMw(i) /\ IsMw(j)) => trace[i].link.order < trace[j].link.order
        /\ \A j \in Positions : (IsMw(j) /\ trace[j].link.order >= Entry.order) =>
               \E i \in 1..(j - 1) : IsTyped(i)

\* A request on a node three levels deep ran a before-layer, the typed handler
\* and an after-layer.
C1_Witness ==
    /\ pc = "done" /\ reqRoute # 0
    /\ Depth(Entry.owner) >= 3
    /\ Len(trace) = 3
    /\ IsMw(1) /\ IsTyped(2) /\ IsMw(3)
    /\ trace[1].link.node # trace[3].link.node

\* The links executed, as (kind, order number) pairs.
Executed == [i \in Positions |-> <<trace[i].link.kind, trace[i].link.order>>]

MwAllAdvance ==
    \A i \in Positions :
        trace[i].link.kind \in {"mw", "rmw"} => trace[i].act = "next" /\ trace[i].err = NilErr

HandlerSucceeded ==
    \E i \in Positions :
        /\ IsTyped(i) /\ trace[i].act = "ok"
        /\ \E k \in 1..Len(writes) : writes[k].pos = trace[i].pos /\ writes[k].v.by = "handler"

HandlerDelegated == \E i \in Positions : IsTyped(i) /\ trace[i].act = "ErrNext"

\* mw1 and mw2 on the root, then one route on the root, then mw3 on the root.
C2_Scenario ==
    /\ OrdersOn(1) = {1, 2, 4}
    /\ Len(routes) = 1 /\ routes[1].owner = 1 /\ routes[1].order = 3
    /\ pc = "done" /\ reqRoute = 1

\* C2 as stated: with every middleware advancing with no error and the handler
\* returning a normal success response, the request executes mw1, mw2,
\* handler, mw3.
C2_AsStated ==
    (C2_Scenario /\ MwAllAdvance /\ HandlerSucceeded) =>
        Executed = << <<"mw", 1>>, <<"mw", 2>>, <<"handler", 3>>, <<"mw", 4>> >>

\* C2 (amended): in that scenario, with every middleware advancing with no
\* error, the request executes exactly mw1, mw2, handler when the handler
\* writes a success response, and exactly mw1, mw2, handler, mw3 when the
\* handler returns ErrNext.
C2_Scenario_Order ==
    (C2_Scenario /\ MwAllAdvance) =>
        /\ HandlerSucceeded =>
               Executed = << <<"mw", 1>>, <<"mw", 2>>, <<"handler", 3>> >>
        /\ HandlerDelegated =>
               Executed = << <<"mw", 1>>, <<"mw", 2>>, <<"handler", 3>>, <<"mw", 4>> >>

C2_Witness ==
    /\ C2_Scenario /\ MwAllAdvance /\ HandlerDelegated
    /\ Len(trace) = 4

\* C3: a middleware registered after the route runs only after the typed
\* handler advanced, the typed handler advances only when the user handler
\* returned ErrNext, and a typed handler that ended otherwise is the last link
\* to run.
C3_AfterOnlyOnErrNext ==
    Matched =>
        /\ \A j \in Positions : (IsMw(j) /\ trace[j].link.order > Entry.order) =>
               \E i \in 1..(j - 1) : IsTyped(i) /\ trace[i].act = "ErrNext"
        /\ \A i \in Positions : (IsTyped(i) /\ trace[i].next) => trace[i].act = "ErrNext"
        /\ \A i \in Positions : (IsTyped(i) /\ trace[i].act # "ErrNext") =>
               i = Len(trace) /\ pc = "done"

\* The handler wrote its response although a middleware was registered after
\* the route, and nothing ran after it.
C3_Witness ==
    /\ pc = "done" /\ reqRoute # 0
    /\ \E o \in ChainOrders : o > Entry.order
    /\ HandlerSucceeded
    /\ IsTyped(Len(trace))

NothingAt(pos) ==
    /\ \A k \in 1..Len(writes) : writes[k].pos # pos
    /\ \A k \in 1..Len(ehCalls) : ehCalls[k].pos # pos

Least(S) == CHOOSE x \in S : \A y \in S : x <= y

\* C4: when the user handler returns ErrNext the typed handler writes nothing,
\* no error reaches the ErrorHandler or the default mapping, and the next link
\* to run is the middleware of least order number registered after the route
\* on the ancestor chain (none: the request ends), on any node.
C4_ErrNextDelegates ==
    Matched =>
        \A i \in Positions : (IsTyped(i) /\ trace[i].act = "ErrNext") =>
            /\ trace[i].next
            /\ NothingAt(trace[i].pos)
            /\ LET after == {o \in ChainOrders : o > Entry.order} IN
               IF after = {} THEN i = Len(trace) /\ pc = "done"
               ELSE IF i < Len(trace)
                    THEN IsMw(i + 1) /\ trace[i + 1].link.order = Least(after)
                    ELSE pc = "run" /\ chain[idx].kind = "mw"
                                    /\ chain[idx].order = Least(after)

\* On a mounted child the handler returned ErrNext and the middleware after
\* the route wrote the whole response.
C4_Witness ==
    /\ pc = "done" /\ reqRoute # 0 /\ Entry.owner # 1
    /\ Len(trace) = 2 /\ IsTyped(1) /\ trace[1].act = "ErrNext"
    /\ IsMw(2) /\ trace[2].act = "return"
    /\ Len(writes) = 1 /\ writes[1].v.by = "middleware" /\ writes[1].pos = trace[2].pos
    /\ ehCalls = <<>>

BeforeHandlerErrNext(i) ==
    /\ IsMw(i) /\ trace[i].link.order < Entry.order
    /\ trace[i].act = "next" /\ trace[i].err = ErrNext

\* C5 as stated: after a before-layer advanced with next(ErrNext) the typed
\* handler is skipped and the user handler is never invoked.
C5_AsStated ==
    Matched =>
        \A i \in Positions : BeforeHandlerErrNext(i) =>
            /\ handlerCalls = 0
            /\ \A j \in Positions : ~IsTyped(j)

\* C5 (amended): next(ErrNext) from a before-layer triggers no error handling
\* and the chain goes on as after next(nil): the link that runs next is the
\* one of the next order number among the ancestor layers and the route, so
\* the typed handler is not skipped.
C5_ErrNextIsNil ==
    Matched =>
        \A i \in Positions : BeforeHandlerErrNext(i) =>
            /\ NothingAt(trace[i].pos)
            /\ LET succ == Least({o \in ChainOrders \cup {Entry.order} :
                                      o > trace[i].link.order})
               IN IF i < Len(trace) THEN trace[i + 1].link.order = succ
                  ELSE pc = "run" /\ chain[idx].order = succ

C5_Witness ==
    /\ pc = "done" /\ reqRoute # 0
    /\ Len(trace) = 2 /\ BeforeHandlerErrNext(1)
    /\ IsTyped(2) /\ handlerCalls = 1 /\ HandlerSucceeded

\* C9: every middleware that runs for a matched route was registered with Use
\* on a node of the ancestor chain of the route's node.
C9_OnlyAncestorChain ==
    Matched =>
        \A i \in Positions : IsMw(i) =>
            /\ OnAncestorChain(trace[i].link.node, Entry.owner)
            /\ trace[i].link.order \in OrdersOn(trace[i].link.node)

\* A node off the chain holds a middleware of lower order than the route, and
\* the request ran an ancestor middleware and the handler without it.
C9_Witness ==
    /\ pc = "done" /\ reqRoute # 0
    /\ \E n \in 1..Len(nodes) :
           /\ ~OnAncestorChain(n, Entry.owner)
           /\ \E o \in OrdersOn(n) : o < Entry.order
    /\ \E i \in Positions : IsMw(i)
    /\ \E i \in Positions : IsTyped(i)

\* ------------------------------------------------- properties of SpecErr
WritesAt(pos) == SelectSeq(writes, LAMBDA x : x.pos = pos)
CallsAt(pos) == SelectSeq(ehCalls, LAMBDA x : x.pos = pos)

\* What happened at a chain position, in the shape of an operator's result.
OutcomeAt(pos) ==
    [w |-> [k \in 1..Len(WritesAt(pos)) |-> WritesAt(pos)[k].v],
     eh |-> [k \in 1..Len(CallsAt(pos)) |-> CallsAt(pos)[k].v]]

RaisedError(i) ==
    /\ trace[i].link.kind \in {"mw", "rmw"}
    /\ trace[i].act = "next"
    /\ trace[i].err \notin {NilErr, ErrNext}

TypedWith(e) == <<Write("typed", e.status, TRUE)>>

DeliveredOnce(pos, e) ==
    IF nodes[owner].ErrorHandler # NoHandler
    THEN OutcomeAt(pos) = [w |-> <<>>,
                           eh |-> <<[handler |-> nodes[owner].ErrorHandler, err |-> e]>>]
    ELSE OutcomeAt(pos) = [w |-> <<Write("default", StatusInternalServerError, TRUE)>>,
                           eh |-> <<>>]

HandlerPath(entry, e) ==
    LET o == wrapError(entry, method, e) IN [w |-> o.w, eh |-> o.eh]

C8_ReturnEndsChain ==
    pc \in {"run", "done"} =>
        \A i \in Positions : trace[i].act = "return" =>
            /\ i = Len(trace) /\ pc = "done"
            /\ \A k \in 1..Len(writes) :
                   writes[k].pos >= trace[i].pos =>
                       writes[k].pos = trace[i].pos /\ writes[k].v.by = "middleware"
            /\ \A k \in 1..Len(ehCalls) : ehCalls[k].pos < trace[i].pos

\* An unmatched request: the second middleware wrote the response and
\* returned, and the NotFound step behind it never ran.
C8_Witness ==
    /\ pc = "done" /\ reqRoute = 0
    /\ Len(trace) = 2 /\ trace[2].act = "return"
    /\ Len(chain) = 3 /\ chain[3].kind = "terminal"
    /\ Len(writes) = 1 /\ writes[1].v.by = "middleware"
    /\ ehCalls = <<>>

\* --------------------------------------------- properties of SpecRouteMw
IsScoped(i) == trace[i].link.kind = "rmw"

\* C10: the route-scoped middleware that runs belongs to the matched route;
\* it runs in the order given; when the typed handler runs, all of it has run
\* directly before; and every before-layer that runs does so ahead of it.
C10_RouteScoped ==
    Matched =>
        LET n == Len(Entry.routeMiddleware) IN
        /\ \A i \in Positions : IsScoped(i) =>
               /\ trace[i].link.order = Entry.order
               /\ trace[i].link.slot \in 1..n
               /\ trace[i].link.slot > 1 =>
                      i > 1 /\ IsScoped(i - 1)
                            /\ trace[i - 1].link.slot = trace[i].link.slot - 1
               /\ trace[i].link.slot = 1 =>
                      {trace[j].link.order : j \in 1..(i - 1)}
                          = {o \in ChainOrders : o < Entry.order}
        /\ \A i \in Positions : IsTyped(i) =>
               /\ i > n
               /\ \A k \in 1..n : IsScoped(i - k) /\ trace[i - k].link.slot = n + 1 - k
        /\ \A i, j \in Positions :
               (IsScoped(i) /\ IsMw(j) /\ trace[j].link.order < Entry.order) => j < i

\* Two routes, the matched one with two route-scoped middleware and a
\* before-layer: the request ran the layer, both in the order given, then the
\* handler; the other route's entry was registered first.
C10_Witness ==
    /\ pc = "done" /\ reqRoute = 2 /\ Len(routes) = 2
    /\ Len(Entry.routeMiddleware) = 2
    /\ Len(trace) = 4
    /\ IsMw(1) /\ IsScoped(2) /\ IsScoped(3) /\ IsTyped(4)
    /\ trace[1].link.order > routes[1].order

\* ------------------------------------- properties of unmatched requests
Unmatched == pc \in {"run", "done"} /\ reqRoute = 0

\* Node n's base path applies to the path: it is empty or "/", or the path is
\* the base path itself or continues it with a "/".
Covers(n, path) ==
    LET b == nodes[n].BasePath IN
    \/ b \in {<<>>, <<"/">>}
    \/ path = b
    \/ Len(path) > Len(b) /\ SubSeq(path, 1, Len(b) + 1) = b \o <<"/">>

\* C11: the chain of an unmatched request is the middleware of every node
\* whose base path applies to the request path and of no other node, by
\* increasing order number whatever the depth, then one NotFound or
\* MethodNotAllowed step; that step runs only after every middleware before it
\* has called next without a failure (nil, or ErrNext, which the chain takes
\* as nil).
C11_FallbackChain ==
    Unmatched =>
        LET k == Len(chain) IN
        /\ k >= 1 /\ chain[k].kind = "terminal"
        /\ chain[k].arg \in {ErrorKindNotFound, ErrorKindMethodNotAllowed}
        /\ \A i \in 1..(k - 1) :
               /\ chain[i].kind = "mw"
               /\ chain[i].order \in OrdersOn(chain[i].node)
        /\ {chain[i].order : i \in 1..(k - 1)}
               = UNION {OrdersOn(n) : n \in {m \in 1..Len(nodes) : Covers(m, reqPath)}}
        /\ \A i, j \in 1..(k - 1) : i < j => chain[i].order < chain[j].order
        /\ \A i \in Positions : trace[i].link.kind = "terminal" =>
               /\ i = k
               /\ \A j \in 1..(i - 1) :
                      /\ trace[j].link = chain[j]
                      /\ trace[j].act = "next"
                      /\ trace[j].err \in {NilErr, ErrNext}

\* An unmatched request under a mounted node: the node's middleware was
\* registered before the root's and ran before it, then the fallback step ran.
C11_Witness ==
    /\ Unmatched /\ pc = "done"
    /\ Len(chain) = 3 /\ Len(trace) = 3
    /\ trace[1].link.node # 1 /\ trace[2].link.node = 1
    /\ trace[1].link.order < trace[2].link.order
    /\ trace[3].link.kind = "terminal"
    /\ \E n \in 1..Len(nodes) : ~Covers(n, reqPath)

\* ----------------------------------------------- properties of SpecGlobal
\* Every link that ran called next without a failure.
AllAdvanced ==
    \A i \in Positions :
        trace[i].link.kind = "mw" =>
            trace[i].act = "next" /\ trace[i].err \in {NilErr, ErrNext}

RootRan(o) ==
    \E i \in Positions :
        trace[i].link.kind = "mw" /\ trace[i].link.node = 1 /\ trace[i].link.order = o

\* C12 as stated: on every unmatched request, whatever the path and the
\* root's BasePath, each middleware registered on the root runs (unless a
\* link before it ended the chain).
C12_AsStated ==
    (Unmatched /\ pc = "done" /\ AllAdvanced) => \A o \in OrdersOn(1) : RootRan(o)

\* A root with BasePath "/a/" and one middleware: the unmatched request for
\* "/a/b" ran the fallback step alone.
C12_Witness ==
    /\ Unmatched /\ pc = "done"
    /\ nodes[1].BasePath = <<"/", "a", "/">>
    /\ reqPath = <<"/", "a", "/", "b">>
    /\ OrdersOn(1) # {}
    /\ Len(trace) = 1 /\ trace[1].link.kind = "terminal"

\* ------------------------------------------------- properties of SpecConc
Returns == {i \in 1..Len(history) : history[i].ev = "return"}
Calls == {i \in 1..Len(history) : history[i].ev = "call"}

\* The return that ends the call at history position j, 0 while it runs.
ReturnOf(j) ==
    LET later == {k \in Returns : k > j /\ history[k].g = history[j].g} IN
    IF later = {} THEN 0 ELSE CHOOSE k \in later : \A l \in later : k <= l

\* The order number drawn by the call at history position j, 0 before it draws.
NumberOf(j) ==
    IF ReturnOf(j) # 0 THEN history[ReturnOf(j)].n ELSE goroutines[history[j].g].n

\* C13: the calls that have drawn a number hold pairwise different numbers;
\* every Use that has returned left its layer on its node's list and every
\* handle its route entry; and a call made after another has returned holds
\* the greater number, whichever nodes the two were made on.
C13_SharedCounter ==
    /\ \A i, j \in Calls :
           (i # j /\ NumberOf(i) # 0 /\ NumberOf(j) # 0) => NumberOf(i) # NumberOf(j)
    /\ \A k \in Returns :
           IF history[k].op = "Use"
           THEN \E x \in 1..Len(middlewares[history[k].node]) :
                    middlewares[history[k].node][x].order = history[k].n
           ELSE \E r \in 1..Len(routes) :
                    routes[r].order = history[k].n /\ routes[r].owner = history[k].node
    /\ \A i, j \in Calls :
           (ReturnOf(i) # 0 /\ ReturnOf(i) < j /\ NumberOf(j) # 0) =>
               NumberOf(i) < NumberOf(j)

\* Two goroutines were inside Use on the same node at once; both returned and
\* the list holds both layers, the one with the greater number first.
C13_Witness ==
    /\ Len(history) >= 4
    /\ history[1].ev = "call" /\ history[2].ev = "call"
    /\ history[1].op = "Use" /\ history[2].op = "Use"
    /\ history[1].node = history[2].node
    /\ ReturnOf(1) # 0 /\ ReturnOf(2) # 0
    /\ LET list == middlewares[history[1].node] IN
           Len(list) = 2 /\ list[1].order > list[2].order

\* ---------------------------------- properties of handler errors (SpecErr)
\* The typed handler ran and the user handler returned a real error.
HandlerErr(i) == IsTyped(i) /\ trace[i].act = "err"

Declared(e) == e.type \in Entry.expectedErrors
Strict == nodes[owner].StrictErrorTypes
Configured == nodes[owner].ErrorHandler # NoHandler

\* The pipeline answered with its own error of the kind: handed to the
\* ErrorHandler when one is configured, else sent by the default mapping.
Rejected(pos, kind) ==
    IF Configured
    THEN OutcomeAt(pos) = [w |-> <<>>,
                           eh |-> <<[handler |-> nodes[owner].ErrorHandler,
                                     err |-> SproutError(kind)]>>]
    ELSE OutcomeAt(pos) = [w |-> <<WriteText("default", StatusInternalServerError, TRUE, kind)>>,
                           eh |-> <<>>]

\* The error value was sent as the response, with its own status, and the
\* ErrorHandler was not called.
SentAsIs(pos, e) == OutcomeAt(pos) = [w |-> TypedWith(e), eh |-> <<>>]

OwnStatusSent(pos, e) ==
    \E k \in 1..Len(writes) :
        writes[k].pos = pos /\ writes[k].v.by = "typed" /\ writes[k].v.status = e.status

\* C14: on a strict node, with a non-empty allowlist on the route, a struct
\* error of a type outside the allowlist is answered as UndeclaredError (500
\* by default) and never with the error's own status.
C14_StrictRejects ==
    Matched =>
        \A i \in Positions :
            (/\ HandlerErr(i) /\ Strict /\ Entry.expectedErrors # {}
             /\ trace[i].err.shape = "struct" /\ ~Declared(trace[i].err)) =>
                /\ Rejected(trace[i].pos, ErrorKindUndeclaredError)
                /\ ~OwnStatusSent(trace[i].pos, trace[i].err)

\* A strict node without ErrorHandler, a route that declares NotFoundError:
\* the handler returned a TeapotError and 500 undeclared_error_type was sent.
C14_Witness ==
    /\ Matched /\ pc = "done" /\ Strict /\ ~Configured
    /\ Entry.expectedErrors = {"NotFoundError"}
    /\ Len(trace) = 1 /\ HandlerErr(1) /\ trace[1].err = TeapotError(TRUE)
    /\ Len(writes) = 1
    /\ writes[1].v = WriteText("default", StatusInternalServerError, TRUE,
                               ErrorKindUndeclaredError)

\* C15 as stated: a handler error is answered as UndeclaredError only if it
\* is struct-shaped, the route's allowlist is non-empty and lacks its type,
\* and the node is strict.
C15_AsStated ==
    Matched =>
        \A i \in Positions :
            (HandlerErr(i) /\ Rejected(trace[i].pos, ErrorKindUndeclaredError)) =>
                /\ trace[i].err.shape = "struct"
                /\ Entry.expectedErrors # {}
                /\ ~Declared(trace[i].err)
                /\ Strict

\* C15 (amended): a handler error is answered as UndeclaredError only if the
\* node is strict and the error's type is not in the route's allowlist or the
\* error is not struct-shaped.
C15_UndeclaredOnlyIf ==
    Matched =>
        \A i \in Positions :
            (HandlerErr(i) /\ Rejected(trace[i].pos, ErrorKindUndeclaredError)) =>
                /\ Strict
                /\ ~Declared(trace[i].err) \/ trace[i].err.shape # "struct"

\* A strict node with an ErrorHandler and a route that declares nothing: the
\* handler returned an errors.New value and the ErrorHandler got UndeclaredError.
C15_Witness ==
    /\ Matched /\ pc = "done" /\ Strict /\ Configured
    /\ Entry.expectedErrors = {}
    /\ Len(trace) = 1 /\ HandlerErr(1) /\ trace[1].err = PlainError
    /\ Len(ehCalls) = 1 /\ ehCalls[1].v.err = SproutError(ErrorKindUndeclaredError)

\* The error value itself reached the configured ErrorHandler, nothing written.
HandedOver(pos, e) ==
    OutcomeAt(pos) = [w |-> <<>>,
                      eh |-> <<[handler |-> nodes[owner].ErrorHandler, err |-> e]>>]

C20_AsStated ==
    Matched =>
        \A i \in Positions :
            (HandlerErr(i) /\ Strict /\ Declared(trace[i].err)) =>
                ~Rejected(trace[i].pos, ErrorKindUndeclaredError)

\* A strict node with an ErrorHandler, a route that declares errorString: the
\* handler returned an errors.New value and the ErrorHandler got UndeclaredError.
C20_Witness ==
    /\ Matched /\ pc = "done" /\ Strict /\ Configured
    /\ Entry.expectedErrors = {"errorString"}
    /\ Len(trace) = 1 /\ HandlerErr(1) /\ trace[1].err = PlainError
    /\ Len(ehCalls) = 1 /\ ehCalls[1].v.err = SproutError(ErrorKindUndeclaredError)

\* ------------------------------ properties of the pipeline (SpecPipeline)
\* The handler's response value as the pipeline validates it fails its
\* constraints: a value that breaks them, or nil for a type with required
\* fields.
BadResponse(res) == (res.isNil /\ res.required) \/ (~res.isNil /\ ~res.valid)

\* The kind of the pipeline failure that step i of the request ran into, ""
\* where it ran into none.
FailureAt(i) ==
    LET t == trace[i]
        e == t.err
    IN IF t.link.kind = "terminal" THEN t.link.arg
       ELSE IF t.link.kind = "handler"
       THEN CASE t.act = "parse" -> ErrorKindParse
              [] t.act = "validation" -> ErrorKindValidation
              [] t.act = "ok" /\ BadResponse(t.res) -> ErrorKindResponseValidation
              [] t.act = "ok" /\ ~BadResponse(t.res) /\ ~t.res.encodes
                    /\ t.res.status \notin {StatusNoContent, StatusResetContent,
                                             StatusNotModified} ->
                     ErrorKindSerialization
              [] t.act = "err" /\ Strict /\ ~(Declared(e) /\ e.shape = "struct") ->
                     ErrorKindUndeclaredError
              [] t.act = "err" /\ Strict /\ Declared(e) /\ e.shape = "struct" /\ ~e.valid ->
                     ErrorKindErrorValidation
              [] t.act = "err" /\ ~Strict /\ ~Configured /\ ~Declared(e)
                    /\ e.shape = "struct" /\ ~e.valid -> ErrorKindErrorValidation
              [] OTHER -> ""
       ELSE IF RaisedError(i) /\ e.shape = "struct" /\ ~e.valid /\ (Strict \/ ~Configured)
       THEN ErrorKindErrorValidation
       ELSE ""

FailureKinds ==
    {ErrorKindParse, ErrorKindValidation, ErrorKindResponseValidation,
     ErrorKindErrorValidation, ErrorKindUndeclaredError, ErrorKindNotFound,
     ErrorKindMethodNotAllowed}

PipelineWrites == SelectSeq(writes, LAMBDA x : x.v.by # "middleware")

\* C21: where the node that owns the request has an ErrorHandler, a Parse,
\* Validation, ResponseValidation, ErrorValidation, UndeclaredError, NotFound
\* or MethodNotAllowed failure reaches that handler as an Error of that kind
\* exactly once, and the pipeline writes nothing during the request.
C21_HandlerTakesOver ==
    (pc \in {"run", "done"} /\ Configured) =>
        \A i \in Positions :
            FailureAt(i) \in FailureKinds =>
                /\ ehCalls = <<[pos |-> trace[i].pos,
                                v |-> [handler |-> nodes[owner].ErrorHandler,
                                       err |-> SproutError(FailureAt(i))]]>>
                /\ PipelineWrites = <<>>

\* A node mounted with its own ErrorHandler under a root that has none: the
\* handler of its route returned nil for a response type with required
\* fields, and the node's handler received ResponseValidation.
C21_Witness ==
    /\ Matched /\ pc = "done" /\ owner # 1
    /\ nodes[1].ErrorHandler = NoHandler /\ Configured
    /\ \E i \in Positions :
           FailureAt(i) = ErrorKindResponseValidation /\ trace[i].res.isNil
    /\ Len(ehCalls) = 1 /\ writes = <<>>

\* The status the client receives: that of the first WriteHeader of the
\* request, which later calls cannot change.
ResponseStatus == writes[1].v.status

\* The status the default mapping gives an error kind.
StatusOfKind(kind) ==
    CASE kind \in {ErrorKindParse, ErrorKindValidation} -> StatusBadRequest
      [] kind = ErrorKindNotFound -> StatusNotFound
      [] kind = ErrorKindMethodNotAllowed -> StatusMethodNotAllowed
      [] OTHER -> StatusInternalServerError

\* The pipeline answered step i's failure in plain text.
PlainTextAt(i) ==
    \E k \in 1..Len(writes) :
        /\ writes[k].pos = trace[i].pos
        /\ writes[k].v.by = "default" /\ writes[k].v.body
        /\ writes[k].v.text = FailureAt(i)

\* C22 as stated: without an ErrorHandler every classified error, whatever its
\* kind, is answered with a plain-text body and the status of its kind: 400
\* for Parse and Validation, 404 for NotFound, 405 for MethodNotAllowed, 500
\* for ResponseValidation, ErrorValidation, UndeclaredError and Serialization.
C22_AsStated ==
    (pc \in {"run", "done"} /\ ~Configured) =>
        \A i \in Positions :
            FailureAt(i) # "" =>
                /\ PlainTextAt(i)
                /\ ResponseStatus = StatusOfKind(FailureAt(i))

\* No ErrorHandler: the handler's response passed validation, its status 200
\* was sent, the encoding of the body failed, and the Serialization error was
\* written as plain text behind the 200.
C22_Witness ==
    /\ Matched /\ pc = "done" /\ ~Configured
    /\ \E i \in Positions : FailureAt(i) = ErrorKindSerialization /\ PlainTextAt(i)
    /\ Len(writes) = 2
    /\ writes[1].v = Write("handler", StatusOK, FALSE)
    /\ writes[2].v.status = StatusInternalServerError
    /\ ResponseStatus = StatusOK

\* The typed handler ran and the user handler returned a response, nil or not.
HandlerOk(i) == IsTyped(i) /\ trace[i].act = "ok"

\* C24: a response value that fails its validation constraints is never
\* written: the request sees no success status and no success body, and ends
\* in one ResponseValidation error, 500 in plain text by default or the
\* ErrorHandler's where one is configured.
C24_InvalidNeverWritten ==
    Matched =>
        \A i \in Positions :
            (HandlerOk(i) /\ ~trace[i].res.isNil /\ ~trace[i].res.valid) =>
                /\ \A k \in 1..Len(writes) : writes[k].v.by # "handler"
                /\ pc = "done"
                /\ Rejected(trace[i].pos, ErrorKindResponseValidation)

\* No ErrorHandler: the handler behind a middleware returned a value that
\* fails its constraints and the only write of the request is the 500.
C24_Witness ==
    /\ Matched /\ pc = "done" /\ ~Configured
    /\ Len(trace) = 2 /\ IsMw(1) /\ HandlerOk(2)
    /\ ~trace[2].res.isNil /\ ~trace[2].res.valid /\ trace[2].res.status = StatusOK
    /\ writes = <<[pos |-> trace[2].pos,
                   v |-> WriteText("default", StatusInternalServerError, TRUE,
                                   ErrorKindResponseValidation)]>>

\* The user handler returned nil, nil.
HandlerNil(i) == HandlerOk(i) /\ trace[i].res.isNil

NoContent(status) == status \in {StatusNoContent, StatusResetContent, StatusNotModified}

\* The one write of step i is the success response with the body, or with
\* none where the status carries none.
Answered(i, body) ==
    LET st == trace[i].res.status IN
    OutcomeAt(trace[i].pos) =
        [w |-> <<IF NoContent(st) THEN Write("handler", st, FALSE)
                 ELSE WriteText("handler", st, TRUE, body)>>,
         eh |-> <<>>]

Tags == {"path", "query", "header"}

\* Step st of the binding is in the log, and every step before it succeeded.
Logged(b, st) ==
    \E k \in 1..Len(b.log) : b.log[k] = st /\ \A j \in 1..(k - 1) : b.log[j].ok

\* The request carries something that cannot be bound or decoded.
Unbindable(req) ==
    \/ \E f \in 1..Len(req.fields), t \in Tags : req.fields[f][t] = "bad"
    \/ req.body.read \in {"invalid", "unreadable"}

\* The pipeline answered with exactly one error of the kind, status 400 when
\* no ErrorHandler is configured, and nothing else was written.
OneError(pos, kind) ==
    /\ writes = WritesAt(pos) /\ ehCalls = CallsAt(pos)
    /\ IF Configured
       THEN OutcomeAt(pos) = [w |-> <<>>,
                              eh |-> <<[handler |-> nodes[owner].ErrorHandler,
                                        err |-> SproutError(kind)]>>]
       ELSE OutcomeAt(pos) = [w |-> <<WriteText("default", StatusBadRequest, TRUE, kind)>>,
                              eh |-> <<>>]

\* C23 as stated: the user handler is invoked only after every path, query
\* and header field was bound, the body was decoded and the validation of
\* the request passed.  The first binding or decoding failure gives exactly
\* one Parse error and ends the binding, a constraint failure gives exactly
\* one Validation error, and in both cases the handler is not invoked and no
\* success response is written.
C23_AsStated ==
    Matched =>
        \A i \in Positions : IsTyped(i) =>
            LET b == trace[i].bind
                req == b.req
                n == Len(b.log)
            IN /\ handlerCalls > 0 =>
                      /\ \A f \in 1..Len(req.fields), t \in Tags :
                             req.fields[f][t] # "none" => Logged(b, Step(t, f, TRUE))
                      /\ req.body # NoBody => Logged(b, Step("decode", 0, TRUE))
                      /\ n > 0 /\ b.log[n] = Step("validate", 0, TRUE)
               /\ Unbindable(req) =>
                      /\ n > 0 /\ ~b.log[n].ok /\ b.log[n].op # "validate"
                      /\ \A j \in 1..(n - 1) : b.log[j].ok
                      /\ OneError(trace[i].pos, ErrorKindParse)
                      /\ handlerCalls = 0
               /\ (~Unbindable(req) /\ ~req.valid) =>
                      /\ b.log[n] = Step("validate", 0, FALSE)
                      /\ OneError(trace[i].pos, ErrorKindValidation)
                      /\ handlerCalls = 0

\* A request whose body is not JSON and whose length is unknown: the body was
\* not decoded, the handler was invoked and its 200 was written.
C23_Witness ==
    /\ Matched /\ pc = "done" /\ Len(trace) = 1 /\ IsTyped(1)
    /\ trace[1].bind.req.body = Body(-1, "invalid")
    /\ \A k \in 1..Len(trace[1].bind.log) : trace[1].bind.log[k].op # "decode"
    /\ handlerCalls = 1
    /\ Len(writes) = 1 /\ writes[1].v.by = "handler" /\ writes[1].v.status = StatusOK

\* ------------------------------ properties of response bodies (SpecBody)
BodyAllowed(m, status) ==
    /\ m # "HEAD"
    /\ status \notin {StatusNoContent, StatusResetContent, StatusNotModified}
    /\ status \notin 100..199

\* Step i ended in the error value being sent as the response: a middleware
\* passed it to next, or the handler returned it and the route declares it
\* or nothing stands between it and the default path.
SentTyped(i) ==
    \/ RaisedError(i)
    \/ HandlerErr(i) /\ (Declared(trace[i].err) \/ (~Strict /\ ~Configured))

\* The pipeline wrote one response at step i, with the status and the body.
Responded(i, by, status, body) ==
    /\ Len(WritesAt(trace[i].pos)) >= 1
    /\ LET w == WritesAt(trace[i].pos)[1].v IN
          w.by = by /\ w.status = status /\ w.body = body

Normalized(b) ==
    \/ b = <<>>
    \/ /\ b[1] = "/"
       /\ Len(b) > 1 /\ b[2] # "/"
       /\ b[Len(b)] # "/"

Children == 2..Len(nodes)

\* C27 as stated: the base path of a mounted child is the parent's base path
\* joined with the prefix in normalized form: empty, or beginning with
\* exactly one "/" and without a trailing "/", whatever the parent's base
\* path and the prefix; a prefix that is empty or "/" adds nothing to the
\* parent's; and a route registered on the child lies under the child's base
\* path.
C27_AsStated ==
    \A n \in Children :
        LET parent == nodes[nodes[n].parent].BasePath
            base == nodes[n].BasePath
        IN /\ Normalized(base)
           /\ \A prefix \in {<<>>, <<"/">>} :
                  combineBasePath(<<parent, prefix, <<>> >>) = combineBasePath(<<parent>>)
           /\ HasPrefix(fullPath(n, <<"/", "x">>), base \o <<"/">>)

\* Mount("a", &Config{}) on a root without base path: the child's base path
\* is "a", without a leading "/".
C27_Witness ==
    /\ Len(nodes) = 2
    /\ nodes[1].BasePath = <<>>
    /\ nodes[2].BasePath = <<"a">>
    /\ fullPath(2, <<"/", "x">>) = <<"/", "a", "/", "x">>

\* ------------------------------ properties of configuration (SpecConfig)
\* The step is a write to the configuration of node s.
ChangesConfig(s) ==
    \/ \E h \in {NoHandler, 1, 2} : SetErrorHandler(s, h)
    \/ \E v \in BOOLEAN : SetStrict(s, v) \/ PointStrict(s, v)

\* The step mounted a child of s whose error handler and strict flag are the
\* overrides' where they set them and the parent's of that moment where not.
Inherits(s, config) ==
    LET child == nodes'[Len(nodes) + 1] IN
    /\ child.parent = s
    /\ child.ErrorHandler = IF config.ErrorHandler = NoHandler THEN nodes[s].ErrorHandler
                            ELSE config.ErrorHandler
    /\ child.StrictErrorTypes =
           CASE config.StrictErrorTypes = "nil" -> nodes[s].StrictErrorTypes
             [] config.StrictErrorTypes = "shared" -> deref(config.strictRef)
             [] OTHER -> config.StrictErrorTypes = "true"

\* C28 as stated: Mount gives the child the parent's error handler and
\* strict flag of the moment for the fields the overrides leave unset and the
\* overrides' for the others; and no later write to the parent's
\* configuration changes the error handler or the strict flag of a child
\* mounted before.
C28_AsStated ==
    [][/\ \A s \in 1..Len(nodes), config \in ConfigOverrides :
              Mount(s, <<"/", "a">>, config) => Inherits(s, config)
       /\ \A s \in 1..Len(nodes) :
              ChangesConfig(s) =>
                  \A n \in 1..Len(nodes) :
                      nodes[n].parent = s =>
                          /\ nodes'[n].ErrorHandler = nodes[n].ErrorHandler
                          /\ nodes'[n].StrictErrorTypes = nodes[n].StrictErrorTypes]_vars

\* C28 (amended): Mount gives the child the parent's error handler and strict
\* flag of the moment for the fields the overrides leave unset, the flag in a
\* bool of the child's own, and the overrides' for the others.  A later write
\* to the parent's configuration changes no child's error handler, and no
\* child's strict flag unless the child's StrictErrorTypes, taken from the
\* overrides, points to the same bool as the parent's.
C28_CopiedAtMount ==
    [][/\ \A s \in 1..Len(nodes), config \in ConfigOverrides :
              Mount(s, <<"/", "a">>, config) =>
                  /\ Inherits(s, config)
                  /\ config.StrictErrorTypes = "nil" =>
                         \A n \in 1..Len(nodes) :
                             nodes'[Len(nodes) + 1].strictRef # nodes[n].strictRef
       /\ \A s \in 1..Len(nodes) :
              ChangesConfig(s) =>
                  \A n \in 1..Len(nodes) :
                      nodes[n].parent = s =>
                          /\ nodes'[n].ErrorHandler = nodes[n].ErrorHandler
                          /\ nodes[n].strictRef # nodes[s].strictRef =>
                                 nodes'[n].StrictErrorTypes = nodes[n].StrictErrorTypes]_vars

\* The child took handler 1 and strict mode from the root when it was
\* mounted; the root's configuration was changed since and the child's was not.
C28_Witness ==
    /\ Len(nodes) = 2 /\ nodes[2].parent = 1
    /\ nodes[2].ErrorHandler = 1 /\ nodes[1].ErrorHandler # 1
    /\ nodes[2].StrictErrorTypes /\ ~nodes[1].StrictErrorTypes
    /\ nodes[2].strictRef # nodes[1].strictRef

\* ------------------------------------------------- concurrent requests
\* net/http serves every request in a goroutine of its own.  dispatchRoute
\* builds the chain in a slice it makes for the call, and exec carries the
\* position as an argument: both are locals of the goroutine (local, n).
Orderings(n) == {p \in [1..n -> 1..n] : \A i, j \in 1..n : i # j => p[i] # p[j]}

\* Mutant: the layers come back in any order.
sortSliceAnyOrder(layers) ==
    {[i \in 1..Len(layers) |-> layers[p[i]]] : p \in Orderings(Len(layers))}

\* Mutant: the layers are left as they were collected.
sortSliceLeavesOrder(layers) == {layers}
\* sort.Slice is not stable: every arrangement in which no layer stands
\* before one of a smaller order number is a possible result.
sortSlice(layers) ==
    {[i \in 1..Len(layers) |-> layers[p[i]]] :
        p \in {q \in Orderings(Len(layers)) :
                  \A i \in 1..(Len(layers) - 1) :
                      ~(layers[q[i + 1]].order < layers[q[i]].order)}}

\* The chain dispatchRoute puts together from the sorted layers.
chainOf(entry, layers) ==
    Fns(SelectSeq(layers, LAMBDA layer : layer.order < entry.order))
        \o entry.routeMiddleware \o <<entry.fn>>
        \o Fns(SelectSeq(layers, LAMBDA layer : ~(layer.order < entry.order)))

NoRequests == \A g \in 1..MaxGoroutines : goroutines[g].pc = "idle"

\* Goroutine g serves a request matched to route r.
serveRoute(g, r) ==
    /\ goroutines[g].pc = "idle"
    /\ r \in 1..Len(routes)
    /\ \E layers \in sortSlice(concatLayers(ancestorChain(routes[r].owner))) :
           goroutines' = [goroutines EXCEPT ![g] =
                             [pc |-> "run", op |-> "dispatchRoute", node |-> r, n |-> 1,
                              local |-> chainOf(routes[r], layers)]]
    /\ UNCHANGED <<nodes, order, middlewares, routes, mwMu, history, codec>>
    /\ UNCHANGED reqVars

\* exec in goroutine g calls the link at its position, which calls next, or
\* returns without, or passes an error to next.
LinkOutcomes == {"next", "return", "error"}

execLink(g, outcome) ==
    /\ goroutines[g].pc = "run"
    /\ LET me == goroutines[g] IN
       goroutines' = [goroutines EXCEPT ![g] =
                         IF outcome = "next" /\ me.n < Len(me.local)
                         THEN [me EXCEPT !.n = me.n + 1]
                         ELSE [me EXCEPT !.pc = "done"]]
    /\ UNCHANGED <<nodes, order, middlewares, routes, mwMu, history, codec>>
    /\ UNCHANGED reqVars

\* ServeHTTP returns and the goroutine is free for the next request.
serveReturn(g) ==
    /\ goroutines[g].pc = "done"
    /\ goroutines' = [goroutines EXCEPT ![g] = Idle]
    /\ UNCHANGED <<nodes, order, middlewares, routes, mwMu, history, codec>>
    /\ UNCHANGED reqVars

\* SpecIsolation: registration while no request is served, then requests in
\* several goroutines at once, matched to any route.
RoomIsolation == Len(nodes) + order < MaxIsoSetup

NextIsolation ==
    \/ \E s \in 1..Len(nodes) :
           NoRequests /\ RoomIsolation /\ Mount(s, <<"/", "a">>, NilConfig)
    \/ \E s \in 1..Len(nodes) : NoRequests /\ RoomIsolation /\ Use(s)
    \/ \E s \in 1..Len(nodes), nmw \in 0..1 :
           NoRequests /\ RoomIsolation /\ Len(routes) < MaxRoutes /\ handle(s, nmw, {})
    \/ \E g \in 1..MaxGoroutines, r \in 1..Len(routes) : serveRoute(g, r)
    \/ \E g \in 1..MaxGoroutines, outcome \in LinkOutcomes : execLink(g, outcome)
    \/ \E g \in 1..MaxGoroutines : serveReturn(g)

SpecIsolation == Init /\ [][NextIsolation]_vars

\* ---------------------------------- properties of concurrent requests
InFlight(g) == goroutines[g].pc \in {"run", "done"}

\* A request that starts gets the chain of its route.
GetsRouteChain ==
    \A g \in 1..MaxGoroutines :
        goroutines[g].pc = "idle" /\ goroutines'[g].pc = "run" =>
            goroutines'[g].local = routeChain(routes[goroutines'[g].node])

\* Two requests served since the last registration and matched to the same
\* route have the same chain.
SameChain ==
    \A g, h \in 1..MaxGoroutines :
        InFlight(g) /\ InFlight(h) /\ goroutines[g].node = goroutines[h].node =>
            goroutines[g].local = goroutines[h].local

\* A step of goroutine g's request leaves the chain and the position of
\* every other request as they were.
Isolated ==
    \A g, h \in 1..MaxGoroutines :
        g # h /\ goroutines'[g] # goroutines[g] =>
            /\ goroutines'[h].local = goroutines[h].local
            /\ goroutines'[h].n = goroutines[h].n
            /\ goroutines'[h].node = goroutines[h].node

\* C29: for a fixed registration history two requests matched to the same
\* route get the same chain, the same links in the same order, and a step of
\* one request, alone or interleaved with steps of others, changes neither
\* the links nor the order of another request's chain.
C29_ChainsDeterministicIsolated == [][GetsRouteChain /\ SameChain' /\ Isolated]_vars

\* Two requests on the same route are in flight at once, at different links
\* of a chain with middleware before and after the handler.
C29_Witness ==
    /\ goroutines[1].pc = "run" /\ goroutines[2].pc = "run"
    /\ goroutines[1].node = goroutines[2].node
    /\ goroutines[1].n = 1 /\ goroutines[2].n = 3
    /\ Len(goroutines[1].local) = 3
    /\ goroutines[1].local[2].kind = "handler"

\* ------------------------------------------------------------ union codec
\* A DTO with a string discriminator field Type (json:"type") and union
\* fields, each a pointer to a variant struct tagged
\* sprout:"union=<jsonFieldName>,when=Type:<discriminatorValue>"; its json
\* tag is "-" or absent, and then the field decodes and encodes under its Go
\* name as well.
UnionKeys == {"p", "q"}
WhenValues == {"a", "b"}
TypeValues == WhenValues \cup {"c"}
FieldNames == <<"A", "B", "C">>

unionFieldInfo(fieldIndex, jsonFieldName, discriminatorValue, json) ==
    [fieldIndex |-> fieldIndex, jsonFieldName |-> jsonFieldName,
     discriminatorField |-> "Type", discriminatorValue |-> discriminatorValue,
     json |-> json]

\* The union fields of every DTO type with 1..MaxUnionFields of them.
UnionTypes ==
    UNION {{[i \in 1..n |-> unionFieldInfo(i, key[i], when[i], json[i])] :
               key \in [1..n -> UnionKeys], when \in [1..n -> WhenValues],
               json \in [1..n -> {"-", ""}]} : n \in 1..MaxUnionFields}

\* A JSON body as a map of raw values: absent, null, the objects x and y, and
\* bad for JSON that does not decode into a variant struct.
Absent == "absent"
Nil == "nil"

BodyKeys(unions) == {"type"} \cup UnionKeys \cup {FieldNames[i] : i \in 1..Len(unions)}

BodyMaps(unions) ==
    {bodyMap \in [BodyKeys(unions) -> TypeValues \cup {Absent, "null", "x", "y", "bad"}] :
        /\ bodyMap["type"] \in TypeValues
        /\ \A k \in UnionKeys : bodyMap[k] \in {Absent, "null", "x", "bad"}
        /\ \A i \in 1..Len(unions) : bodyMap[FieldNames[i]] \in {Absent, "y"}}

\* var req TestRequest
ZeroDTO(unions) == [Type |-> "", fields |-> [i \in 1..Len(unions) |-> Nil]]

EmptyMap(unions) == [k \in BodyKeys(unions) |-> Absent]

\* json.Unmarshal(body, &req): Type from "type"; a union field that is not
\* json:"-" from the key of its Go name.
jsonUnmarshal(unions, bodyMap, req) ==
    [Type |-> bodyMap["type"],
     fields |-> [i \in 1..Len(unions) |->
                    IF unions[i].json = "-" \/ bodyMap[FieldNames[i]] = Absent
                    THEN req.fields[i]
                    ELSE bodyMap[FieldNames[i]]]]

\* json.Unmarshal(rawJSON, target) into a variant just allocated: null has no
\* effect on a struct and leaves the zero variant.
decoded(rawJSON) == IF rawJSON = "null" THEN "zero" ELSE rawJSON

\* Mutant: the discriminator is not compared.
RECURSIVE unmarshalEveryUnionFrom(_, _, _, _)
unmarshalEveryUnionFrom(k, reqValue, bodyMap, unions) ==
    IF k > Len(unions) THEN [req |-> reqValue, err |-> FALSE]
    ELSE LET union == unions[k]
             rawJSON == bodyMap[union.jsonFieldName]
         IN IF rawJSON = Absent
            THEN unmarshalEveryUnionFrom(k + 1, reqValue, bodyMap, unions)
            ELSE IF rawJSON = "bad"
            THEN [req |-> [reqValue EXCEPT !.fields[union.fieldIndex] = "zero"], err |-> TRUE]
            ELSE unmarshalEveryUnionFrom(
                     k + 1, [reqValue EXCEPT !.fields[union.fieldIndex] = decoded(rawJSON)],
                     bodyMap, unions)

unmarshalEveryUnion(reqValue, bodyMap, unions) ==
    unmarshalEveryUnionFrom(1, reqValue, bodyMap, unions)

\* The loop of unmarshalUnionFields from the k-th union on.
RECURSIVE unmarshalUnionFieldsFrom(_, _, _, _)
unmarshalUnionFieldsFrom(k, reqValue, bodyMap, unions) ==
    IF k > Len(unions) THEN [req |-> reqValue, err |-> FALSE]
    ELSE LET union == unions[k]
             rawJSON == bodyMap[union.jsonFieldName]
         IN IF reqValue.Type # union.discriminatorValue \/ rawJSON = Absent
            THEN unmarshalUnionFieldsFrom(k + 1, reqValue, bodyMap, unions)
            ELSE IF rawJSON = "bad"
            THEN [req |-> [reqValue EXCEPT !.fields[union.fieldIndex] = "zero"], err |-> TRUE]
            ELSE unmarshalUnionFieldsFrom(
                     k + 1, [reqValue EXCEPT !.fields[union.fieldIndex] = decoded(rawJSON)],
                     bodyMap, unions)

unmarshalUnionFields(reqValue, bodyMap, unions) ==
    unmarshalUnionFieldsFrom(1, reqValue, bodyMap, unions)

\* The loop of serializeUnionFields from field i on.
RECURSIVE serializeUnionFieldsFrom(_, _, _, _)
serializeUnionFieldsFrom(i, val, typ, result) ==
    IF i > Len(typ) THEN result
    ELSE IF val.Type # typ[i].discriminatorValue \/ val.fields[i] = Nil
    THEN serializeUnionFieldsFrom(i + 1, val, typ, result)
    ELSE serializeUnionFieldsFrom(
             i + 1, val, typ, [result EXCEPT ![typ[i].jsonFieldName] = val.fields[i]])

serializeUnionFields(val, typ, result) == serializeUnionFieldsFrom(1, val, typ, result)

\* toJSONMap: the fields that are not json:"-" under their names, a nil
\* pointer as null, then the union fields.
toJSONMap(val, typ) ==
    LET flat == [k \in BodyKeys(typ) |->
                    IF k = "type" THEN val.Type
                    ELSE IF \E i \in 1..Len(typ) : FieldNames[i] = k /\ typ[i].json # "-"
                    THEN LET i == CHOOSE i \in 1..Len(typ) : FieldNames[i] = k
                         IN IF val.fields[i] = Nil THEN "null" ELSE val.fields[i]
                    ELSE Absent]
    IN serializeUnionFields(val, typ, flat)

Decode ==
    /\ codec.pc = "decode"
    /\ codec' = [codec EXCEPT !.req = jsonUnmarshal(codec.typ, codec.bodyMap, codec.req),
                              !.pc = "unions"]
    /\ UNCHANGED <<nodes, order, middlewares, routes, concVars>>
    /\ UNCHANGED reqVars

BindUnions ==
    /\ codec.pc = "unions"
    /\ LET r == unmarshalUnionFields(codec.req, codec.bodyMap, codec.typ) IN
       codec' = [codec EXCEPT !.req = r.req, !.pc = IF r.err THEN "failed" ELSE "bound"]
    /\ UNCHANGED <<nodes, order, middlewares, routes, concVars>>
    /\ UNCHANGED reqVars

Encode ==
    /\ codec.pc = "bound"
    /\ codec' = [codec EXCEPT !.result = toJSONMap(codec.req, codec.typ), !.pc = "encoded"]
    /\ UNCHANGED <<nodes, order, middlewares, routes, concVars>>
    /\ UNCHANGED reqVars

\* SpecUnion: every DTO type and body, decoded, bound and serialized.
InitUnion ==
    /\ InitRouter({1}, {"nil"}, {<<>>})
    /\ \E typ \in UnionTypes :
           \E bodyMap \in BodyMaps(typ) :
               codec = [pc |-> "decode", typ |-> typ, bodyMap |-> bodyMap,
                        req |-> ZeroDTO(typ), result |-> EmptyMap(typ)]

NextUnion == Decode \/ BindUnions \/ Encode

SpecUnion == InitUnion /\ [][NextUnion]_vars

\* ------------------------------------------ properties of the union codec
IsBound == codec.pc \in {"bound", "encoded"}

\* The union fields whose discriminator value the request carries.
Matching == {i \in 1..Len(codec.typ) : codec.typ[i].discriminatorValue = codec.bodyMap["type"]}

TheMatch == CHOOSE i \in Matching : TRUE

\* The variant of field i, and no other union field, is in the result, under
\* the union key of field i.
OnlyUnder(i) ==
    /\ codec.result[codec.typ[i].jsonFieldName] = codec.req.fields[i]
    /\ \A k \in UnionKeys \ {codec.typ[i].jsonFieldName} : codec.result[k] = Absent

\* C30 as stated: after binding a request whose discriminator value matches
\* exactly one union field, that field is non-nil and holds the value decoded
\* from the JSON under its union key, every other union field is nil, and
\* serializing puts the active variant and only it under that key.
C30_AsStated ==
    IsBound /\ Cardinality(Matching) = 1 =>
        /\ codec.req.fields[TheMatch] # Nil
        /\ codec.req.fields[TheMatch] = decoded(codec.bodyMap[codec.typ[TheMatch].jsonFieldName])
        /\ \A j \in 1..Len(codec.typ) \ {TheMatch} : codec.req.fields[j] = Nil
        /\ codec.pc = "encoded" => OnlyUnder(TheMatch)

\* C30 (amended): after binding a request whose discriminator value matches
\* exactly one union field and whose body has a value under that field's
\* union key, the field is non-nil and holds the value decoded from it; every
\* other union field is as the plain JSON decoding left it, so nil if it is
\* json:"-"; serializing puts the active variant, and no other union field,
\* under the union key.
C30_ActiveVariantBound ==
    IsBound /\ Cardinality(Matching) = 1
            /\ codec.bodyMap[codec.typ[TheMatch].jsonFieldName] # Absent =>
        /\ codec.req.fields[TheMatch] # Nil
        /\ codec.req.fields[TheMatch] = decoded(codec.bodyMap[codec.typ[TheMatch].jsonFieldName])
        /\ \A j \in 1..Len(codec.typ) \ {TheMatch} :
               /\ codec.req.fields[j] =
                      jsonUnmarshal(codec.typ, codec.bodyMap, ZeroDTO(codec.typ)).fields[j]
               /\ codec.typ[j].json = "-" => codec.req.fields[j] = Nil
        /\ codec.pc = "encoded" => OnlyUnder(TheMatch)

\* Two json:"-" variants share a union key, the body selects the second and
\* carries an object under the key; the DTO was bound and serialized.
C30_Witness ==
    /\ codec.pc = "encoded"
    /\ Len(codec.typ) = 2
    /\ codec.typ[1].json = "-" /\ codec.typ[2].json = "-"
    /\ codec.typ[1].jsonFieldName = "p" /\ codec.typ[2].jsonFieldName = "p"
    /\ codec.typ[1].discriminatorValue = "a" /\ codec.typ[2].discriminatorValue = "b"
    /\ codec.bodyMap["type"] = "b" /\ codec.bodyMap["p"] = "x"
    /\ codec.req.fields = <<Nil, "x">>
    /\ codec.result["p"] = "x"

\* ------------------------------------------------------------ union tags
\* A sprout tag after strings.Split(tag, ",") and TrimSpace: parts that start
\* with "union=", parts that start with "when=", and others.  A union part
\* carries what follows the prefix; a when part carries the index of the
\* first colon in what follows (-1 without one, 0 when nothing stands before
\* it) and what follows the colon.
UnionPart(name) == [prefix |-> "union=", name |-> name, colonIdx |-> -1, value |-> ""]
WhenPart(colonIdx, value) == [prefix |-> "when=", name |-> "", colonIdx |-> colonIdx, value |-> value]
OtherPart == [prefix |-> "", name |-> "", colonIdx |-> -1, value |-> ""]

TagParts ==
    {UnionPart(name) : name \in {"", "p"}}
    \cup {WhenPart(colonIdx, value) : colonIdx \in {-1, 0, 4}, value \in {"", "a"}}
    \cup {OtherPart}

SproutTags == SeqsUpTo(TagParts, MaxParts)

NoInfo == [isNil |-> TRUE, jsonFieldName |-> "", discriminatorField |-> "",
           discriminatorValue |-> "", fieldIndex |-> 0]

\* The loop of parseUnionTag over the parts, info being filled as it goes.
RECURSIVE parseParts(_, _)
parseParts(parts, info) ==
    IF parts = <<>> THEN info
    ELSE LET part == Head(parts)
             filled ==
                 IF part.prefix = "union=" THEN [info EXCEPT !.jsonFieldName = part.name]
                 ELSE IF part.prefix = "when=" /\ part.colonIdx > 0
                 THEN [info EXCEPT !.discriminatorField = "Type",
                                   !.discriminatorValue = part.value]
                 ELSE info
         IN parseParts(Tail(parts), filled)

parseUnionTag(tag) ==
    IF tag = <<>> THEN NoInfo
    ELSE LET info == parseParts(tag, [NoInfo EXCEPT !.isNil = FALSE])
         IN IF info.jsonFieldName = "" \/ info.discriminatorField = ""
               \/ info.discriminatorValue = ""
            THEN NoInfo ELSE info

\* collectUnionFields over the fields of a struct type, tags[i] the sprout
\* tag of field i, from field i on.
RECURSIVE collectUnionFieldsFrom(_, _)
collectUnionFieldsFrom(i, tags) ==
    IF i > Len(tags) THEN <<>>
    ELSE LET info == parseUnionTag(tags[i]) IN
         (IF info.isNil THEN <<>> ELSE <<[info EXCEPT !.fieldIndex = i]>>)
             \o collectUnionFieldsFrom(i + 1, tags)

collectUnionFields(tags) == collectUnionFieldsFrom(1, tags)

Collect ==
    /\ codec.pc = "tags"
    /\ codec' = [codec EXCEPT !.unions = collectUnionFields(codec.tags), !.pc = "collected"]
    /\ UNCHANGED <<nodes, order, middlewares, routes, concVars>>
    /\ UNCHANGED reqVars

\* SpecTag: struct types with every sprout tag on their fields.
InitTag ==
    /\ InitRouter({1}, {"nil"}, {<<>>})
    /\ \E tags \in SeqsUpTo(SproutTags, MaxTagFields) :
           tags # <<>> /\ codec = [pc |-> "tags", tags |-> tags, unions |-> <<>>]

NextTag == Collect

SpecTag == InitTag /\ [][NextTag]_vars

\* ---------------------------------------------- properties of union tags
\* The tag asks for a union (it has a union= or a when= part) and lacks the
\* union key, or the when clause, or the Field:value of the when clause.
HasUnionPart(tag) == \E k \in 1..Len(tag) : tag[k].prefix = "union=" /\ tag[k].name # ""
HasWhenPart(tag) == \E k \in 1..Len(tag) : tag[k].prefix = "when="
HasFieldValue(tag) ==
    \E k \in 1..Len(tag) : tag[k].prefix = "when=" /\ tag[k].colonIdx > 0 /\ tag[k].value # ""

IllFormed(tag) ==
    /\ \E k \in 1..Len(tag) : tag[k].prefix # ""
    /\ ~HasUnionPart(tag) \/ ~HasWhenPart(tag) \/ ~HasFieldValue(tag)

Untagged(tags, i) == [tags EXCEPT ![i] = <<>>]

\* C31 as stated: a struct type with an ill-formed union tag on a field is
\* not given the result it would have if that field carried no tag.
C31_AsStated ==
    codec.pc = "collected" =>
        \A i \in 1..Len(codec.tags) :
            IllFormed(codec.tags[i]) =>
                codec.unions # collectUnionFields(Untagged(codec.tags, i))

\* A field tagged with a union key and a when clause that has no colon went
\* through collectUnionFields.
C31_Witness ==
    /\ codec.pc = "collected"
    /\ codec.tags = <<(<<UnionPart("p"), WhenPart(-1, "")>>)>>

\* ------------------------------------------------- projection of embeds
\* A struct value as its fields in order.  A plain field has a name, a json
\* tag ("" for none, "omitempty", "-") and a string value; an anonymous
\* embedded struct has its type name, may carry an http tag, and has fields
\* of its own (inner).  As a value it stands for a nested object.
PlainField(name, json, value) ==
    [anonymous |-> FALSE, name |-> name, json |-> json, http |-> FALSE, unwrap |-> FALSE,
     value |-> value, inner |-> <<>>]

EmbeddedStruct(http, inner) ==
    [anonymous |-> TRUE, name |-> "E", json |-> "", http |-> http, unwrap |-> FALSE,
     value |-> "object", inner |-> inner]

PlainFields ==
    {PlainField(name, json, value) :
        name \in {"a", "b"}, json \in {"", "omitempty", "-"}, value \in {"", "v"}}

RECURSIVE StructFields(_)
StructFields(depth) ==
    PlainFields \cup
        (IF depth = 0 THEN {}
         ELSE {EmbeddedStruct(http, inner) :
                  http \in BOOLEAN, inner \in SeqsUpTo(StructFields(depth - 1), MaxEmbedFields)})

ProjectionKeys == {"a", "b", "E"}

shouldExcludeFromJSON(field) == field.json = "-" \/ field.http

\* hasSproutOption(field, "unwrap")
isUnwrapField(field) == field.unwrap

jsonTagInfo(field) ==
    [Name |-> IF field.json = "-" THEN "" ELSE field.name, OmitEmpty |-> field.json = "omitempty"]

\* The inner loop of toJSONMap over the fields of an embedded struct.
RECURSIVE flattenEmbedded(_, _)
flattenEmbedded(embedded, result) ==
    IF embedded = <<>> THEN result
    ELSE LET embeddedField == Head(embedded)
             tagInfo == jsonTagInfo(embeddedField)
         IN flattenEmbedded(
                Tail(embedded),
                IF shouldExcludeFromJSON(embeddedField) \/ tagInfo.Name = ""
                   \/ isUnwrapField(embeddedField)
                THEN result
                ELSE [result EXCEPT ![tagInfo.Name] = embeddedField.value])

\* The loop of toJSONMap over the fields of the struct.
RECURSIVE toJSONMapFields(_, _)
toJSONMapFields(fields, result) ==
    IF fields = <<>> THEN result
    ELSE LET field == Head(fields)
             tagInfo == jsonTagInfo(field)
         IN toJSONMapFields(
                Tail(fields),
                IF field.anonymous THEN flattenEmbedded(field.inner, result)
                ELSE IF shouldExcludeFromJSON(field) \/ tagInfo.Name = "" \/ isUnwrapField(field)
                THEN result
                ELSE IF tagInfo.OmitEmpty /\ field.value = "" THEN result
                ELSE [result EXCEPT ![tagInfo.Name] = field.value])

NoKeys == [k \in ProjectionKeys |-> Absent]

Project ==
    /\ codec.pc = "struct"
    /\ codec' = [codec EXCEPT !.result = toJSONMapFields(codec.fields, NoKeys),
                              !.pc = "projected"]
    /\ UNCHANGED <<nodes, order, middlewares, routes, concVars>>
    /\ UNCHANGED reqVars

\* SpecEmbed: every struct of plain fields and embedded structs, projected.
InitEmbed ==
    /\ InitRouter({1}, {"nil"}, {<<>>})
    /\ \E fields \in SeqsUpTo(StructFields(MaxEmbedDepth), MaxStructFields) :
           codec = [pc |-> "struct", fields |-> fields, result |-> NoKeys]

NextEmbed == Project

SpecEmbed == InitEmbed /\ [][NextEmbed]_vars

\* ------------------------------------ properties of projection of embeds
\* The struct with the fields of every embedded struct, at any depth,
\* declared in its place on the parent.
RECURSIVE Promoted(_)
Promoted(fields) ==
    IF fields = <<>> THEN <<>>
    ELSE (IF Head(fields).anonymous THEN Promoted(Head(fields).inner) ELSE <<Head(fields)>>)
             \o Promoted(Tail(fields))

\* C32 as stated: the projection of a struct with anonymous embedded structs
\* is the projection of the struct that declares their fields directly: same
\* top-level keys, same exclusion and omit-if-empty rules, at any depth,
\* whether or not the embed carries an http tag.
C32_AsStated ==
    codec.pc = "projected" =>
        codec.result = toJSONMapFields(Promoted(codec.fields), NoKeys)

\* A struct that embeds, with an http tag, a struct whose one field is
\* omitempty and empty was projected.
C32_Witness ==
    /\ codec.pc = "projected"
    /\ codec.fields = <<EmbeddedStruct(TRUE, <<PlainField("a", "omitempty", "")>>)>>

\* --------------------------------------------------------- unwrap fields
\* A field tagged sprout:"unwrap": a slice, nil or with elements.
UnwrapField(name, json, value) ==
    [anonymous |-> FALSE, name |-> name, json |-> json, http |-> FALSE, unwrap |-> TRUE,
     value |-> value, inner |-> <<>>]

UnwrapFields ==
    {UnwrapField(name, json, value) :
        name \in {"a", "b", "E"}, json \in {"", "-"}, value \in {"nil", "list"}}

NotFound == [result |-> "nil", ok |-> FALSE]

\* The loop of unwrapJSONFieldValue from the state (result, found) on.
RECURSIVE unwrapFrom(_, _, _)
unwrapFrom(fields, result, found) ==
    IF fields = <<>> THEN (IF found THEN [result |-> result, ok |-> TRUE] ELSE NotFound)
    ELSE LET field == Head(fields) IN
         IF shouldExcludeFromJSON(field) \/ ~isUnwrapField(field)
         THEN unwrapFrom(Tail(fields), result, found)
         ELSE IF found THEN NotFound
         ELSE unwrapFrom(Tail(fields), field.value, TRUE)

unwrapJSONFieldValue(fields) == unwrapFrom(fields, "nil", FALSE)

\* prepareResponseBody of a non-nil struct: the unwrapped value, or the map.
ResponseBody(unwrapped, value, object) ==
    [unwrapped |-> unwrapped, value |-> value, object |-> object]

prepareBody(fields) ==
    LET u == unwrapJSONFieldValue(fields) IN
    IF u.ok THEN ResponseBody(TRUE, u.result, NoKeys)
    ELSE ResponseBody(FALSE, "nil", toJSONMapFields(fields, NoKeys))

Prepare ==
    /\ codec.pc = "response"
    /\ codec' = [codec EXCEPT !.body = prepareBody(codec.fields), !.pc = "prepared"]
    /\ UNCHANGED <<nodes, order, middlewares, routes, concVars>>
    /\ UNCHANGED reqVars

\* SpecUnwrap: response structs of plain fields and unwrap fields.
InitUnwrap ==
    /\ InitRouter({1}, {"nil"}, {<<>>})
    /\ \E fields \in SeqsUpTo({f \in PlainFields : f.json # "omitempty"} \cup UnwrapFields,
                             MaxUnwrapStruct) :
           codec = [pc |-> "response", fields |-> fields,
                    body |-> ResponseBody(FALSE, "nil", NoKeys)]

NextUnwrap == Prepare

SpecUnwrap == InitUnwrap /\ [][NextUnwrap]_vars

\* ---------------------------------------------- properties of unwrap fields
\* The unwrap fields the serializer sees.
Unwraps(fields) ==
    {i \in 1..Len(fields) : isUnwrapField(fields[i]) /\ ~shouldExcludeFromJSON(fields[i])}

\* C33 as stated: the body prepared for a struct with more than one unwrap
\* field is not the object the struct gives with its unwrap fields left out,
\* and is not the value of one of them.
C33_AsStated ==
    codec.pc = "prepared" /\ Cardinality(Unwraps(codec.fields)) > 1 =>
        /\ ~codec.body.unwrapped
        /\ codec.body #
               ResponseBody(FALSE, "nil",
                            toJSONMapFields(SelectSeq(codec.fields,
                                                      LAMBDA f : ~isUnwrapField(f)), NoKeys))

\* A struct with two unwrap fields and a plain field had its body prepared.
C33_Witness ==
    /\ codec.pc = "prepared"
    /\ codec.fields = <<UnwrapField("b", "", "list"), UnwrapField("E", "", "list"),
                        PlainField("a", "", "v")>>
    /\ codec.body.object["a"] = "v"

C35_AsStated ==
    Matched =>
        \A i \in Positions :
            (/\ HandlerErr(i) /\ trace[i].err.shape = "struct" /\ ~trace[i].err.valid
             /\ Rejected(trace[i].pos, ErrorKindErrorValidation)) =>
                (Strict \/ Declared(trace[i].err))

\* A non-strict root without ErrorHandler, a route that declares
\* NotFoundError: the handler returned a TeapotError that fails its
\* constraints and the default 500 of ErrorValidation was written.
C35_Witness ==
    /\ Matched /\ pc = "done" /\ ~Strict /\ ~Configured
    /\ Entry.expectedErrors = {"NotFoundError"}
    /\ Len(trace) = 1 /\ HandlerErr(1) /\ trace[1].err = TeapotError(FALSE)
    /\ ehCalls = <<>>
    /\ Len(writes) = 1
    /\ writes[1].v = WriteText("default", StatusInternalServerError, TRUE,
                               ErrorKindErrorValidation)

\* ------------------------------------------------------------ path matching
\* SpecMatch: a router whose base path is any string of "/", "a" and "b" of
\* up to MaxPathLen characters, or "/use", asked about any request path of up
\* to MaxReqPathLen such characters, or "/use", "/user", "/use/r".
MatchChars == {"/", "a", "b"}

MatchBases == SeqsUpTo(MatchChars, MaxPathLen) \cup {<<"/", "u", "s", "e">>}

MatchPaths ==
    SeqsUpTo(MatchChars, MaxReqPathLen)
        \cup {<<"/", "u", "s", "e">>, <<"/", "u", "s", "e", "r">>,
              <<"/", "u", "s", "e", "/", "r">>}

Match ==
    /\ codec.pc = "path"
    /\ codec' = [codec EXCEPT !.matches = matchesPath(1, codec.path), !.pc = "matched"]
    /\ UNCHANGED <<nodes, order, middlewares, routes, concVars>>
    /\ UNCHANGED reqVars

InitMatch ==
    /\ InitRouter({1}, {"nil"}, MatchBases)
    /\ \E path \in MatchPaths : codec = [pc |-> "path", path |-> path, matches |-> FALSE]

NextMatch == Match

SpecMatch == InitMatch /\ [][NextMatch]_vars

\* C36: matchesPath is true exactly when the base path is empty or "/", or
\* the path is the base path, or the path begins with the base path followed
\* by "/".
C36_MatchesPathExact ==
    codec.pc = "matched" =>
        LET base == nodes[1].BasePath IN
        codec.matches <=> \/ base = <<>>
                          \/ base = <<"/">>
                          \/ codec.path = base
                          \/ HasPrefix(codec.path, base \o <<"/">>)

\* The router based at "/use" was asked about "/user" and did not match.
C36_Witness ==
    /\ codec.pc = "matched"
    /\ nodes[1].BasePath = <<"/", "u", "s", "e">>
    /\ codec.path = <<"/", "u", "s", "e", "r">>
    /\ ~codec.matches

\* ------------------------------------------------- the union validation rule
\* A field of a validated struct: info is what parseUnionTag makes of its
\* sprout tag (NoInfo without a well-formed union tag, else the discriminator
\* field it names, which the struct has only under the name Type, and the
\* value it is declared for), ptr whether it is a pointer, set whether it is
\* non-nil (a pointer) or non-zero (a value), validate whether it carries
\* validate:"union".
RuleInfos ==
    {NoInfo} \cup {[NoInfo EXCEPT !.isNil = FALSE, !.jsonFieldName = "p",
                                  !.discriminatorField = f, !.discriminatorValue = w] :
                      f \in {"Type", "Gone"}, w \in WhenValues}

RuleField(info, ptr, set, validate) ==
    [info |-> info, ptr |-> ptr, set |-> set, validate |-> validate]

RuleFields ==
    {RuleField(info, ptr, set, validate) :
        info \in RuleInfos, ptr \in BOOLEAN, set \in BOOLEAN, validate \in BOOLEAN}

\* Mutant: only the active variant is looked at.
unionRuleActiveOnly(field, parent) ==
    LET info == field.info IN
    IF info.isNil THEN TRUE
    ELSE IF info.discriminatorField # "Type" THEN FALSE
    ELSE IF parent.Type # info.discriminatorValue THEN TRUE
    ELSE IF field.ptr THEN field.set
    ELSE TRUE

\* The function registered under the tag "union", called for one field.
unionRule(field, parent) ==
    LET info == field.info IN
    IF info.isNil THEN TRUE
    ELSE IF info.discriminatorField # "Type" THEN FALSE
    ELSE LET actualValue == parent.Type IN
         IF actualValue # info.discriminatorValue
         THEN ~field.set            \* IsNil of a pointer, IsZero of a value
         ELSE IF field.ptr THEN field.set
         ELSE TRUE

\* validate.Struct: the rule is called for every field that carries the tag,
\* nil pointers included.
validateStruct(parent) ==
    \A i \in 1..Len(parent.fields) :
        parent.fields[i].validate => unionRule(parent.fields[i], parent)

Validate ==
    /\ codec.pc = "dto"
    /\ codec' = [codec EXCEPT !.accepted = validateStruct(codec.dto), !.pc = "validated"]
    /\ UNCHANGED <<nodes, order, middlewares, routes, concVars>>
    /\ UNCHANGED reqVars

\* SpecRule: structs with a discriminator Type and up to MaxRuleFields fields.
InitRule ==
    /\ InitRouter({1}, {"nil"}, {<<>>})
    /\ \E type \in TypeValues, fields \in SeqsUpTo(RuleFields, MaxRuleFields) :
           codec = [pc |-> "dto", dto |-> [Type |-> type, fields |-> fields],
                    accepted |-> FALSE]

NextRule == Validate

SpecRule == InitRule /\ [][NextRule]_vars

\* --------------------------------- properties of the union validation rule
IsUnionField(i) == ~codec.dto.fields[i].info.isNil

\* The discriminator of the struct has the value the field is declared for.
Selected(i) ==
    /\ codec.dto.fields[i].info.discriminatorField = "Type"
    /\ codec.dto.fields[i].info.discriminatorValue = codec.dto.Type

\* Nil or zero when the discriminator differs, non-nil when it is equal.
FitsDiscriminator(i) ==
    LET field == codec.dto.fields[i] IN
    IF Selected(i) THEN (field.ptr => field.set) ELSE ~field.set

Accepted == codec.pc = "validated" /\ codec.accepted

\* C37 as stated: a struct that passes validation has every union field nil
\* or zero when the discriminator differs from its declared value and non-nil
\* when it equals it.
C37_AsStated ==
    Accepted => \A i \in 1..Len(codec.dto.fields) : IsUnionField(i) => FitsDiscriminator(i)

\* C37 (amended): a struct that passes validation has every union field that
\* carries validate:"union" nil or zero when the discriminator differs from
\* its declared value and non-nil when it equals it; of those fields no two
\* declared for different values are populated, and none selected by the
\* discriminator is a nil pointer.
C37_TaggedFieldsFit ==
    Accepted =>
        LET fields == codec.dto.fields
            tagged == {i \in 1..Len(fields) : IsUnionField(i) /\ fields[i].validate}
        IN /\ \A i \in tagged : FitsDiscriminator(i)
           /\ \A i, j \in tagged :
                  (fields[i].set /\ fields[j].set) =>
                      fields[i].info.discriminatorValue = fields[j].info.discriminatorValue
           /\ \A i \in tagged : (Selected(i) /\ fields[i].ptr) => fields[i].set

\* Type is "a"; the pointer declared for "a" is set, the one declared for "b"
\* is nil, both carry validate:"union", and the struct passed.
C37_Witness ==
    /\ Accepted
    /\ codec.dto.Type = "a"
    /\ Len(codec.dto.fields) = 2
    /\ \A i \in 1..2 : IsUnionField(i) /\ codec.dto.fields[i].validate /\ codec.dto.fields[i].ptr
                       /\ codec.dto.fields[i].info.discriminatorField = "Type"
    /\ codec.dto.fields[1].info.discriminatorValue = "a" /\ codec.dto.fields[1].set
    /\ codec.dto.fields[2].info.discriminatorValue = "b" /\ ~codec.dto.fields[2].set

\* ------------------------------------------- registration during requests
\* dispatchRoute in goroutine g, step by step: collectMiddlewareLayers takes
\* the routers of the route's ancestor chain one after another (n is the
\* position in that chain, local the layers copied so far) and copies the
\* list of each between RLock and RUnlock; then the layers are sorted and the
\* chain is put together.  start keeps the chain the route had when dispatch
\* started, for comparison only.
RouterOf(g) == ancestorChain(routes[goroutines[g].node].owner)[goroutines[g].n]

dispatchStart(g, r) ==
    /\ goroutines[g].pc = "idle"
    /\ r \in 1..Len(routes)
    /\ goroutines' = [goroutines EXCEPT ![g] =
                         [pc |-> "RLock", op |-> "dispatchRoute", node |-> r, n |-> 1,
                          local |-> <<>>, start |-> routeChain(routes[r])]]
    /\ UNCHANGED <<nodes, order, middlewares, routes, mwMu, history, codec>>
    /\ UNCHANGED reqVars

\* Mutant: the read lock is granted while a writer holds the lock.
mwMuRLockUnguarded(g) ==
    /\ goroutines[g].pc = "RLock"
    /\ goroutines' = Goto(g, "copy")
    /\ UNCHANGED <<nodes, order, middlewares, routes, mwMu, history, codec>>
    /\ UNCHANGED reqVars

mwMuRLock(g) ==
    /\ goroutines[g].pc = "RLock"
    /\ RouterOf(g) \notin mwMu
    /\ goroutines' = Goto(g, "copy")
    /\ UNCHANGED <<nodes, order, middlewares, routes, mwMu, history, codec>>
    /\ UNCHANGED reqVars

copyLayers(g) ==
    /\ goroutines[g].pc = "copy"
    /\ goroutines' = [goroutines EXCEPT ![g].local = @ \o middlewares[RouterOf(g)],
                                        ![g].pc = "RUnlock"]
    /\ UNCHANGED <<nodes, order, middlewares, routes, mwMu, history, codec>>
    /\ UNCHANGED reqVars

mwMuRUnlock(g) ==
    /\ goroutines[g].pc = "RUnlock"
    /\ LET me == goroutines[g]
           routers == ancestorChain(routes[me.node].owner)
       IN goroutines' = [goroutines EXCEPT ![g] =
                            IF me.n < Len(routers)
                            THEN [me EXCEPT !.n = me.n + 1, !.pc = "RLock"]
                            ELSE [me EXCEPT !.pc = "sort"]]
    /\ UNCHANGED <<nodes, order, middlewares, routes, mwMu, history, codec>>
    /\ UNCHANGED reqVars

buildChain(g) ==
    /\ goroutines[g].pc = "sort"
    /\ \E layers \in sortSlice(goroutines[g].local) :
           goroutines' = [goroutines EXCEPT
                             ![g].local = chainOf(routes[goroutines[g].node], layers),
                             ![g].n = 1, ![g].pc = "run"]
    /\ UNCHANGED <<nodes, order, middlewares, routes, mwMu, history, codec>>
    /\ UNCHANGED reqVars

\* SpecLive: a root and a mounted node; Use in goroutines, step by step, and
\* routes registered in one step, while another goroutine serves a request.
RoomLive == order < MaxLiveSetup

\* One request is served at a time; requests served side by side are the
\* subject of SpecIsolation.
OneRequest == \A g \in 1..MaxGoroutines : goroutines[g].op # "dispatchRoute"

NextLive ==
    \/ history = <<>> /\ order = 0 /\ Len(nodes) = 1 /\ Mount(1, <<"/", "a">>, NilConfig)
    \/ \E s \in 1..Len(nodes) : RoomLive /\ Len(routes) < MaxRoutes /\ handle(s, 0, {})
    \/ \E g \in 1..MaxGoroutines, s \in 1..Len(nodes) : RoomLive /\ Call(g, "Use", s)
    \/ \E g \in 1..MaxGoroutines : orderNext(g)
    \/ \E g \in 1..MaxGoroutines : mwMuLock(g)
    \/ \E g \in 1..MaxGoroutines : appendLoad(g)
    \/ \E g \in 1..MaxGoroutines : appendStore(g)
    \/ \E g \in 1..MaxGoroutines : mwMuUnlock(g)
    \/ \E g \in 1..MaxGoroutines, r \in 1..Len(routes) : OneRequest /\ dispatchStart(g, r)
    \/ \E g \in 1..MaxGoroutines : mwMuRLock(g)
    \/ \E g \in 1..MaxGoroutines : copyLayers(g)
    \/ \E g \in 1..MaxGoroutines : mwMuRUnlock(g)
    \/ \E g \in 1..MaxGoroutines : buildChain(g)
    \/ \E g \in 1..MaxGoroutines, outcome \in LinkOutcomes : execLink(g, outcome)
    \/ \E g \in 1..MaxGoroutines : serveReturn(g)

InitLive == InitWith({NoHandler}, {"nil"}, {<<>>})

SpecLive == InitLive /\ [][NextLive]_vars

\* ------------------------------ properties of registration during requests
Serving(g) == goroutines[g].op = "dispatchRoute" /\ goroutines[g].pc \in {"run", "done"}

\* The position of the typed handler in the chain of goroutine g.
HandlerAt(g) ==
    CHOOSE i \in 1..Len(goroutines[g].local) : goroutines[g].local[i].kind = "handler"

\* C38: the chain a request runs is in strictly increasing order number,
\* whatever order the Use calls appended their layers in: the links before
\* the typed handler are in increasing order and smaller than the route's
\* number, the links after it in increasing order and greater.
C38_ChainSortedAnyInterleaving ==
    \A g \in 1..MaxGoroutines :
        Serving(g) =>
            LET links == goroutines[g].local
                entry == routes[goroutines[g].node]
            IN /\ \A i, j \in 1..Len(links) : i < j => links[i].order < links[j].order
               /\ links[HandlerAt(g)] = entry.fn
               /\ \A i \in 1..Len(links) :
                      /\ i < HandlerAt(g) => links[i].kind = "mw" /\ links[i].order < entry.order
                      /\ i > HandlerAt(g) => links[i].kind = "mw" /\ links[i].order > entry.order

\* Two Use calls on the root appended their layers against their order
\* numbers, 3 before 1; the route has number 2, and the request runs the
\* chain 1, handler, 3.
C38_Witness ==
    /\ Len(middlewares[1]) = 2
    /\ middlewares[1][1].order = 3 /\ middlewares[1][2].order = 1
    /\ \E g \in 1..MaxGoroutines :
           /\ Serving(g)
           /\ routes[goroutines[g].node].order = 2
           /\ [i \in 1..Len(goroutines[g].local) |-> goroutines[g].local[i].order] = <<1, 2, 3>>

\* The goroutines inside the critical section of Use on node s.
Writers(s) ==
    {g \in 1..MaxGoroutines :
        /\ goroutines[g].op = "Use"
        /\ goroutines[g].pc \in {"load", "store", "Unlock"}
        /\ goroutines[g].node = s}

LinksOf(links) == {links[i] : i \in 1..Len(links)}

\* C39 as stated: the chain a request runs is the chain its route had when
\* dispatch started; no Use that ran while the chain was being built has
\* added a link to it.
C39_AsStated ==
    \A g \in 1..MaxGoroutines : Serving(g) => goroutines[g].local = goroutines[g].start

\* A node's list is read and appended under the node's lock: one writer at
\* most, holding the lock, and no reader beside it.
LockHeld ==
    \A s \in 1..Len(nodes) :
        /\ Cardinality(Writers(s)) <= 1
        /\ Writers(s) # {} => s \in mwMu /\ Readers(s) = {}

\* The step appends one layer to the list of one node, made by the goroutine
\* that holds the lock of that node.
AppendsUnderLock ==
    \E g \in 1..MaxGoroutines :
        /\ g \in Writers(goroutines[g].node) /\ goroutines[g].pc = "store"
        /\ \A s \in 1..Len(nodes) :
               IF s = goroutines[g].node
               THEN Len(middlewares'[s]) = Len(middlewares[s]) + 1
                    /\ SubSeq(middlewares'[s], 1, Len(middlewares[s])) = middlewares[s]
               ELSE middlewares'[s] = middlewares[s]

\* C39 (amended): each node's list is copied under its read lock and appended
\* under its write lock.  The layers of a request are those copies, taken one
\* router after another: the chain has every layer its route had when
\* dispatch started, may have layers appended while the routers were being
\* visited, and has none that its route does not have when the chain is put
\* together.  Once put together it stays as it is whatever is registered.
C39_CopiedUnderLockThenFixed ==
    [][/\ LockHeld /\ LockHeld'
       /\ (\E s \in 1..Len(nodes) : middlewares'[s] # middlewares[s]) => AppendsUnderLock
       /\ \A g \in 1..MaxGoroutines :
              /\ (Serving(g) /\ goroutines'[g].op = "dispatchRoute") =>
                     goroutines'[g].local = goroutines[g].local
              /\ (goroutines[g].op = "dispatchRoute"
                  /\ goroutines'[g].op = "dispatchRoute"
                  /\ goroutines'[g].local # goroutines[g].local) =>
                     \/ goroutines[g].pc = "copy" /\ g \in Readers(RouterOf(g))
                     \/ goroutines[g].pc = "sort"
              /\ (goroutines[g].pc = "sort" /\ goroutines'[g].pc = "run") =>
                     /\ LinksOf(goroutines[g].start) \subseteq LinksOf(goroutines'[g].local)
                     /\ LinksOf(goroutines'[g].local)
                            \subseteq LinksOf(routeChain(routes[goroutines[g].node]))
      ]_vars

\* A request runs a chain of the handler alone while the root, on the route's
\* ancestor chain, has a layer that was appended after its list was copied.
C39_Witness ==
    \E g \in 1..MaxGoroutines :
        /\ Serving(g)
        /\ Len(goroutines[g].local) = 1
        /\ goroutines[g].local = goroutines[g].start
        /\ middlewares[1] # <<>>
        /\ Writers(1) = {}

\* ------------------------------------------------------ one pass of runChain
\* SpecPass: small setups as in Spec, then requests whose links return or
\* call next once; a link that was called does return or call next.
RoomPass == Len(nodes) + order < MaxPassSetup

LinkActs ==
    \/ \E wrote \in BOOLEAN : MiddlewareReturns(wrote)
    \/ \E err \in {NilErr, ErrNext} \cup MwErrs : MiddlewareNext(err)
    \/ \E req \in Requests, res \in BindResults
                                    \cup {Result("ErrNext", FALSE, TRUE, FALSE, FALSE, TRUE,
                                                 0, ErrNext)} :
           TypedHandler(req, res)

NextPass ==
    \/ \E s \in 1..Len(nodes) : RoomPass /\ Mount(s, <<"/", "a">>, NilConfig)
    \/ \E s \in 1..Len(nodes) : RoomPass /\ Use(s)
    \/ \E s \in 1..Len(nodes), nmw \in 0..1 :
           RoomPass /\ Len(routes) < MaxRoutes /\ handle(s, nmw, {})
    \/ \E r \in 1..Len(routes), m \in Methods : dispatchRoute(r, m)
    \/ LinkActs

SpecPass == Init /\ [][NextPass]_vars /\ WF_vars(LinkActs)

\* The links that ended in error handling: a middleware that passed an error
\* to next (handleChainError), the typed handler that failed.
ErrorHandlings ==
    {i \in Positions :
        \/ RaisedError(i)
        \/ IsTyped(i) /\ trace[i].act \in {"err", "parse", "validation"}}

\* exec was called with the position after the last link.
PastTheEnd ==
    /\ trace # <<>>
    /\ trace[Len(trace)].pos = Len(chain)
    /\ trace[Len(trace)].next
    /\ trace[Len(trace)].err \in {NilErr, ErrNext}

OnePass ==
    /\ \A i \in Positions : trace[i].link = chain[trace[i].pos]
    /\ \A i, j \in Positions : i < j => trace[i].pos < trace[j].pos
    /\ \A i \in Positions : i < Len(trace) => trace[i].next /\ trace[i + 1].pos = trace[i].pos + 1
    /\ Len(trace) <= Len(chain)
    /\ Cardinality({i \in Positions : IsTyped(i)}) <= 1
    /\ handlerCalls <= 1
    /\ Cardinality(ErrorHandlings) <= 1
    /\ Len(ehCalls) <= 1
    /\ \A i \in ErrorHandlings : i = Len(trace) /\ pc = "done"
    /\ pc = "run" => idx \in 1..Len(chain) /\ Len(trace) = idx - 1
    /\ PastTheEnd => pc = "done" /\ WritesAt(Len(chain)) = <<>> /\ CallsAt(Len(chain)) = <<>>

\* C40: with links that call next at most once, the links of a request run
\* one after another in increasing chain position, each at most once, the
\* typed handler and the error handling at most once each; every request
\* that runs comes to its end; a next call of the last link does nothing.
C40_OnePassThenDone == []OnePass /\ (pc = "run" ~> pc = "done")

\* Every link of a chain of three ran, the typed handler in the middle, and
\* the last one called next(nil): the request is done and nothing was
\* written.
C40_Witness ==
    /\ pc = "done" /\ Len(chain) = 3 /\ Len(trace) = 3
    /\ IsTyped(2) /\ handlerCalls = 1
    /\ PastTheEnd /\ trace[3].err = NilErr
    /\ writes = <<>> /\ ehCalls = <<>>

====
